---- MODULE Spec2Model ----
(***************************************************************************)
(* rust-docs-mcp: the crate cache orchestrator (CrateCache) of             *)
(* rust-docs-mcp/src/cache/service.rs, as a state machine.                 *)
(*                                                                         *)
(* The orchestrator is translated from service.rs.  Its collaborators      *)
(* (CacheStorage, CrateDownloader, DocGenerator, WorkspaceHandler,         *)
(* CacheTransaction, CacheResponse) live in files that are not part of     *)
(* the sources at hand; they are modelled from sections 4.1-4.5 of the     *)
(* specification and are marked as such where they are defined.            *)
(*                                                                         *)
(* One request runs at a time (RustDocsService keeps the CrateCache behind *)
(* one mutex); inside a request the only concurrency is the member         *)
(* fan-out of cache_workspace_members, whose tasks interleave at their     *)
(* suspension points (acquisition, generation, load).                      *)
(***************************************************************************)
EXTENDS Integers, Sequences, FiniteSets, TLC

VARIABLES
    src,      \* storage: key -> source directory content, or None
    docs,     \* storage: key -> package-level artifact, or None
    mdocs,    \* storage: key -> member name -> member artifact, or None
    backup,   \* the transaction's backup of an entry (temp dir), or None
    txn,      \* TransactionState of the current request's transaction
    pc,       \* position of the current request
    call,     \* parameters and locals of the current request
    tasks,    \* the member futures of the current fan-out
    outcome,  \* what the request returned (set when pc = "returned")
    log,      \* collaborator invocations of the current request, in order
    calls,    \* number of requests started so far
    pre,      \* history: the entry of the key when begin() was called
    nTerm,    \* history: terminal transitions made by the transaction
    last,     \* history: what the previous request returned, when it was a
              \* successful ensure_crate_docs: its key and its artifact
    held,     \* the tool groups that hold a guard of their cache mutex
    analyzer  \* cargo-modules: the inputs, position and results of one analysis

vars == <<src, docs, mdocs, backup, txn, pc, call, tasks, outcome, log, calls, pre, nTerm,
         last, held, analyzer>>

storage == <<src, docs, mdocs>>

(* ------------------------------- bounds ------------------------------- *)

\* Requests started in one behaviour.
MaxCalls == 2
\* Distinct upstream revisions an acquisition can deliver.
MaxRev == 2
\* Longest requested member list.
MaxMembers == 2

(* ------------------------------ universe ------------------------------ *)

\* Option<T>: None, or Some(x).
None == <<>>
Some(x) == <<x>>
IsSome(o) == o # None
Unwrap(o) == o[1]
Opt(S) == {None} \cup {Some(x) : x \in S}

Names == {"alpha"}
\* Registry versions and branch / tag names are drawn from the same strings.
Versions == {"v1", "v2"}
Keys == Names \X Versions
\* What the storage can be asked about: a descriptor without a ref extracts
\* to the empty version.
StorageKeys == Names \X (Versions \cup {""})

MemberPaths == {"crates/a", "crates/b"}
MemberNames == {"a", "b"}

Seqs(S, n) == UNION {[1..m -> S] : m \in 0..n}
NoDup(s) == \A i, j \in 1..Len(s) : i # j => s[i] # s[j]
\* The member lists a request can carry: distinct member paths.
MemberLists == {s \in Seqs(MemberPaths, MaxMembers) : NoDup(s)}

\* Source trees an acquisition can deliver: a plain package, a workspace
\* declaring two members, and a plain package with a nested crate "crates/a"
\* that no workspace declares.
PlainTree == [ws |-> FALSE, declared |-> <<>>, manifests |-> {}]
WsTree == [ws |-> TRUE, declared |-> <<"crates/a", "crates/b">>,
           manifests |-> {"crates/a", "crates/b"}]
NestedTree == [ws |-> FALSE, declared |-> <<>>, manifests |-> {"crates/a"}]
Trees == {PlainTree, WsTree, NestedTree}

Revs == 1..MaxRev
SrcContents == [tree : Trees, rev : Revs]

(* --------------------- CrateSource (the descriptor) -------------------- *)

CratesIO(n, v, m, u) ==
    [kind |-> "cratesio", crate_name |-> n, version |-> v, branch |-> None,
     tag |-> None, members |-> m, update |-> u]
GitHub(n, b, t, m, u) ==
    [kind |-> "github", crate_name |-> n, version |-> "", branch |-> b,
     tag |-> t, members |-> m, update |-> u]
LocalPath(n, v, m, u) ==
    [kind |-> "local", crate_name |-> n, version |-> v, branch |-> None,
     tag |-> None, members |-> m, update |-> u]

\* Every descriptor a caller can build.  update is an Option<bool>.
Sources ==
    UNION {{CratesIO(n, v, m, u), LocalPath(n, v, m, u)}
           : <<n, v, m, u>> \in Names \X Versions \X Opt(MemberLists) \X Opt(BOOLEAN)}
    \cup {GitHub(n, b, t, m, u)
          : <<n, b, t, m, u>> \in Names \X Opt(Versions) \X Opt(Versions)
                                  \X Opt(MemberLists) \X Opt(BOOLEAN)}

unwrap_or(o, d) == IF IsSome(o) THEN Unwrap(o) ELSE d

\* Faulty variant: the ref of a repository descriptor is not used as the version.
extract_source_params_NoRef(source) ==
    [crate_name |-> source.crate_name, version |-> source.version,
     members |-> source.members,
     source_str |-> IF source.kind = "cratesio" THEN None ELSE Some(<<"url">>),
     update |-> unwrap_or(source.update, FALSE)]

\* lines 317-363.
extract_source_params(source) ==
    CASE source.kind = "cratesio" ->
           [crate_name |-> source.crate_name, version |-> source.version,
            members |-> source.members, source_str |-> None,
            update |-> unwrap_or(source.update, FALSE)]
      [] source.kind = "github" ->
           [crate_name |-> source.crate_name,
            version |-> IF IsSome(source.branch) THEN Unwrap(source.branch)
                        ELSE IF IsSome(source.tag) THEN Unwrap(source.tag)
                        ELSE "",
            members |-> source.members,
            source_str |-> IF IsSome(source.branch)
                             THEN Some(<<"url", "#branch:", Unwrap(source.branch)>>)
                           ELSE IF IsSome(source.tag)
                             THEN Some(<<"url", "#tag:", Unwrap(source.tag)>>)
                           ELSE Some(<<"url">>),
            update |-> unwrap_or(source.update, FALSE)]
      [] source.kind = "local" ->
           [crate_name |-> source.crate_name, version |-> source.version,
            members |-> source.members, source_str |-> Some(<<"path">>),
            update |-> unwrap_or(source.update, FALSE)]

(* ------------------ CacheStorage (spec section 4.1) -------------------- *)

has_docs(k) == IsSome(docs[k])
is_cached(k) == IsSome(src[k])
has_member_docs(k, name) == IsSome(mdocs[k][name])

NoMemberDocs == [n \in MemberNames |-> None]
NoEntry == [src |-> None, docs |-> None, mdocs |-> NoMemberDocs]
Entry(k) == [src |-> src[k], docs |-> docs[k], mdocs |-> mdocs[k]]

\* The three storage maps with the entry of k replaced by e.
PutEntry(k, e) ==
    /\ src' = [src EXCEPT ![k] = e.src]
    /\ docs' = [docs EXCEPT ![k] = e.docs]
    /\ mdocs' = [mdocs EXCEPT ![k] = e.mdocs]

\* storage.remove_crate: deletes the source and every artifact of the key.
storage_remove_crate(k) == PutEntry(k, NoEntry)

(* ----------------- WorkspaceHandler (spec section 4.3) ----------------- *)

extract_member_name(path) ==
    CASE path = "crates/a" -> "a"
      [] path = "crates/b" -> "b"

is_workspace(k) == Unwrap(src[k]).tree.ws
get_workspace_members(k) == Unwrap(src[k]).tree.declared

(* ------------------------------ CacheResponse -------------------------- *)

Response(kind, k, members, results, errors, updated, stype, msg, value) ==
    [kind |-> kind, key |-> k, members |-> members, results |-> results,
     errors |-> errors, updated |-> updated, source_type |-> stype,
     msg |-> msg, value |-> value]

success(k) == Response("Success", Some(k), <<>>, <<>>, <<>>, FALSE, "", <<>>, None)
success_updated(k) ==
    Response("SuccessUpdated", Some(k), <<>>, <<>>, <<>>, TRUE, "", <<>>, None)
workspace_detected(k, members, stype, updated) ==
    Response("WorkspaceDetected", Some(k), members, <<>>, <<>>, updated, stype, <<>>, None)
members_success(k, members, results, updated) ==
    Response("MembersSuccess", Some(k), members, results, <<>>, updated, "", <<>>, None)
members_partial(k, members, results, errors, updated) ==
    Response("PartialSuccess", Some(k), members, results, errors, updated, "", <<>>, None)
\* msg: the message and the cause it was formatted with.
error(msg) == Response("Error", None, <<>>, <<>>, <<>>, FALSE, "", msg, None)

\* Result<T> of the ensure_* operations and of remove_crate: Ok with the
\* artifact, Ok with a path, or Err with the error.
Ok(v) == Response("Ok", None, <<>>, <<>>, <<>>, FALSE, "", <<>>, v)
OkPath(path) == Response("Ok", None, <<>>, <<>>, <<>>, FALSE, "", path, None)
Err(e) == Response("Err", None, <<>>, <<>>, <<>>, FALSE, "", <<e>>, None)
\* The bail! of a workspace without a member: it lists the members.
AmbiguousWorkspace(members) ==
    Response("Err", None, members, <<>>, <<>>, FALSE, "", <<"AmbiguousWorkspace">>, None)

\* storage.source_path, and the path of a member under it.
source_path(k) == <<k[1], k[2]>>
member_source_path(k, member) == <<k[1], k[2], member>>

SuccessMsg(member) == <<"Successfully cached member", member>>
FailureMsg(member, e) == <<"Failed to cache member", member, e>>

source_type(kind) ==
    CASE kind = "cratesio" -> "cratesio"
      [] kind = "github" -> "github"
      [] kind = "local" -> "local"

\* Faulty variant: the response does not carry the member list.
generate_workspace_response_NoMembers(k, members, kind, updated) ==
    workspace_detected(k, <<>>, source_type(kind), updated)

\* lines 428-443.
generate_workspace_response(k, members, kind, updated) ==
    workspace_detected(k, members, source_type(kind), updated)

(* ----------------------- RustDocsService, the mutex -------------------- *)

\* The four tool groups of RustDocsService.
ToolGroups == {"cache", "docs", "deps", "analysis"}

\* Faulty variant: every tool group is given a CrateCache and a mutex of its own.
RustDocsService_new_Separate(g) == g

\* service.rs lines 33-42: the mutex each tool group is constructed with: one
\* Arc<Mutex<CrateCache>>, cloned into every group.
RustDocsService_new(g) == "cache"

\* The tool group that serves an operation of the orchestrator.
group_of(op) ==
    CASE op \in {"cache", "remove_crate"} -> "cache"
      [] op \in {"ensure_crate_docs", "ensure_workspace_member_docs",
                 "ensure_crate_or_member_docs"} -> "docs"
      [] op = "ensure_crate_source" -> "deps"
      [] op = "ensure_crate_or_member_source" -> "analysis"

(* ------------------- cargo-modules: analyzer.rs ------------------------ *)

MaxPackages == 2
MaxTargets == 2
MaxSegments == 2
MaxPath == 4

\* PackageData, as far as select_package reads it: name and is_member.
PackageNames == {"p", "q"}
Packages == [name : PackageNames, is_member : BOOLEAN]
Workspaces == Seqs(Packages, MaxPackages)

\* TargetData, as far as select_target reads it: kind and name.
TargetKinds == {"Bin", "Lib", "Example", "Test", "Bench", "Other", "BuildScript"}
TargetNames == {"x", "y"}
Targets == [kind : TargetKinds, name : TargetNames]
TargetLists == Seqs(Targets, MaxTargets)

\* ProjectOptions, as far as the selection reads it.
ProjectOptions == [package : Opt(PackageNames), lib : BOOLEAN, bin : Opt({"x"})]

WorkspaceKinds == {"Cargo", "Json", "DetachedFile"}

\* An item path is a string; identifiers are strings without a colon.
Chars == {"a", "b", ":"}
Paths == Seqs(Chars, MaxPath)
Idents == {<<"a">>, <<"b">>}
\* ast::UseTree: its path, if it has one, is a non-empty sequence of segments,
\* each with or without a name_ref.
UsePaths == Seqs(Opt(Idents), MaxSegments) \ {<<>>}
UseTrees == Opt(UsePaths)

\* anyhow::Result<Idx>: Ok(idx), or the error with its message and the list
\* of candidates it prints.
Found(idx) == [ok |-> TRUE, idx |-> idx, msg |-> "", list |-> <<>>]
Bail(msg, list) == [ok |-> FALSE, idx |-> 0, msg |-> msg, list |-> list]

\* Iterator::find(p) is first(SelectSeq(seq, p)): the first of the elements
\* that satisfy p, if there is one.
first(seq) == IF seq = <<>> THEN None ELSE Some(Head(seq))

\* Option::ok_or_else.
ok_or_else(o, e) == IF IsSome(o) THEN Found(Unwrap(o)) ELSE e

\* Faulty variant: the only package of the workspace is picked before the
\* requested name is looked at.
select_package_SingleFirst(workspace, options) ==
    LET packages == SelectSeq([i \in 1..Len(workspace) |-> i],
                              LAMBDA i : workspace[i].is_member)
        package_count == Len(packages)
        package_list == [j \in 1..package_count |-> workspace[packages[j]].name]
    IN  IF package_count < 1 THEN Bail("no packages found", <<>>)
        ELSE IF package_count = 1 THEN Found(packages[1])
        ELSE IF IsSome(options.package)
          THEN ok_or_else(first(SelectSeq(packages,
                               LAMBDA i : workspace[i].name = Unwrap(options.package))),
                          Bail("No package found with name", package_list))
        ELSE Bail("Multiple packages present in workspace", package_list)

\* analyzer.rs lines 222-291: the index of the selected package.
select_package(workspace, options) ==
    LET packages == SelectSeq([i \in 1..Len(workspace) |-> i],
                              LAMBDA i : workspace[i].is_member)
        package_count == Len(packages)
        package_list == [j \in 1..package_count |-> workspace[packages[j]].name]
    IN  IF package_count < 1 THEN Bail("no packages found", <<>>)
        ELSE IF IsSome(options.package)
          THEN ok_or_else(first(SelectSeq(packages,
                               LAMBDA i : workspace[i].name = Unwrap(options.package))),
                          Bail("No package found with name", package_list))
        ELSE IF package_count = 1 THEN Found(packages[1])
        ELSE Bail("Multiple packages present in workspace", package_list)

\* Faulty variant: a bin name is looked at before the lib flag.
select_target_BinFirst(package_targets, options) ==
    LET targets == SelectSeq([i \in 1..Len(package_targets) |-> i],
                             LAMBDA i : package_targets[i].kind \in {"Bin", "Lib"})
        target_count == Len(targets)
        target_list == [j \in 1..target_count |-> package_targets[targets[j]]]
    IN  IF target_count < 1 THEN Bail("no targets found", <<>>)
        ELSE IF IsSome(options.bin)
          THEN ok_or_else(first(SelectSeq(targets,
                               LAMBDA i : /\ package_targets[i].kind = "Bin"
                                          /\ package_targets[i].name = Unwrap(options.bin))),
                          Bail("No binary target found with name", target_list))
        ELSE IF options.lib
          THEN ok_or_else(first(SelectSeq(targets, LAMBDA i : package_targets[i].kind = "Lib")),
                          Bail("No library target found", target_list))
        ELSE IF target_count = 1 THEN Found(targets[1])
        ELSE Bail("Multiple targets present in package", target_list)

\* analyzer.rs lines 293-410: the index, among the targets of the selected
\* package (package_targets is workspace[package_idx].targets), of the
\* selected target.
select_target(package_targets, options) ==
    LET targets == SelectSeq([i \in 1..Len(package_targets) |-> i],
                             LAMBDA i : package_targets[i].kind \in {"Bin", "Lib"})
        target_count == Len(targets)
        target_list == [j \in 1..target_count |-> package_targets[targets[j]]]
    IN  IF target_count < 1 THEN Bail("no targets found", <<>>)
        ELSE IF options.lib
          THEN ok_or_else(first(SelectSeq(targets, LAMBDA i : package_targets[i].kind = "Lib")),
                          Bail("No library target found", target_list))
        ELSE IF IsSome(options.bin)
          THEN ok_or_else(first(SelectSeq(targets,
                               LAMBDA i : /\ package_targets[i].kind = "Bin"
                                          /\ package_targets[i].name = Unwrap(options.bin))),
                          Bail("No binary target found with name", target_list))
        ELSE IF target_count = 1 THEN Found(targets[1])
        ELSE Bail("Multiple targets present in package", target_list)

\* Faulty variant: out-dirs are loaded from check.
load_config_FromCheck ==
    [load_out_dirs_from_check |-> TRUE, prefill_caches |-> FALSE,
     with_proc_macro_server |-> "Sysroot"]

\* analyzer.rs lines 170-182.
load_config ==
    [load_out_dirs_from_check |-> FALSE, prefill_caches |-> FALSE,
     with_proc_macro_server |-> "Sysroot"]

\* str::split("::"), scanning s from position i, cur being the part collected
\* so far: the separators are the leftmost non-overlapping occurrences.
RECURSIVE split_from(_, _, _)
split_from(s, i, cur) ==
    IF i > Len(s) THEN <<cur>>
    ELSE IF i < Len(s) /\ s[i] = ":" /\ s[i + 1] = ":"
      THEN <<cur>> \o split_from(s, i + 2, <<>>)
    ELSE split_from(s, i + 1, Append(cur, s[i]))

split(s) == split_from(s, 1, <<>>)

\* analyzer.rs lines 712-716: the texts of the segments that have a name_ref.
segments_of(use_path) ==
    LET named == SelectSeq(use_path, IsSome)
    IN  [i \in 1..Len(named) |-> Unwrap(named[i])]

\* Iterator::zip(..).all(|(a, b)| a == b): the pairs end with the shorter side.
zip_all_eq(a, b) ==
    \A i \in 1..(IF Len(a) < Len(b) THEN Len(a) ELSE Len(b)) : a[i] = b[i]

\* Faulty variant: the lengths are not compared.
use_tree_matches_item_path_NoLength(use_tree, path) ==
    IF use_tree = None THEN FALSE
    ELSE zip_all_eq(segments_of(Unwrap(use_tree)), split(path))

\* analyzer.rs lines 705-726.
use_tree_matches_item_path(use_tree, path) ==
    IF use_tree = None THEN FALSE
    ELSE LET segments == segments_of(Unwrap(use_tree))
             path_parts == split(path)
         IN  IF Len(segments) > Len(path_parts) THEN FALSE
             ELSE zip_all_eq(segments, path_parts)

\* No analysis is running.
NoAnalysis ==
    [fn |-> "", pc |-> "", workspace |-> <<>>,
     options |-> [package |-> None, lib |-> FALSE, bin |-> None],
     kind |-> "", config |-> None, package |-> None, targets |-> <<>>,
     target |-> None, events |-> <<>>, result |-> "",
     use_tree |-> None, path |-> <<>>, matches |-> None]

(* ------------------------------- the request --------------------------- *)

\* op: the public operation; key: its (name, version), once validated;
\* updated: inside handle_crate_update; resp / err: the update_result it holds;
\* up: what the upstream source of the key holds while the fan-out runs.
NoCall ==
    [op |-> "", key |-> None, members |-> None, updated |-> FALSE, kind |-> "",
     resp |-> None, err |-> "", up |-> None]

Ev(op, who) == [op |-> op, who |-> who]
Logged(evs) == log' = log \o evs

Init ==
    /\ src = [k \in StorageKeys |-> None]
    /\ docs = [k \in StorageKeys |-> None]
    /\ mdocs = [k \in StorageKeys |-> NoMemberDocs]
    /\ backup = None
    /\ txn = "none"
    /\ pc = "idle"
    /\ call = NoCall
    /\ tasks = <<>>
    /\ outcome = None
    /\ log = <<>>
    /\ calls = 0
    /\ pre = None
    /\ nTerm = 0
    /\ last = None
    /\ held = {}
    /\ analyzer = NoAnalysis

\* The request returns r to its caller.
Return(r) ==
    /\ pc' = "returned"
    /\ outcome' = Some(r)

\* The caller takes the response; the request's locals are gone.
Finish ==
    /\ pc = "returned"
    /\ pc' = "idle"
    /\ call' = NoCall
    /\ tasks' = <<>>
    /\ outcome' = None
    /\ log' = <<>>
    /\ txn' = "none"
    /\ backup' = None
    /\ pre' = None
    /\ nTerm' = 0
    /\ last' = IF call.op = "ensure_crate_docs" /\ Unwrap(outcome).kind = "Ok"
                THEN Some([key |-> Unwrap(call.key), value |-> Unwrap(outcome).value])
                ELSE None
    /\ held' = held \ {group_of(call.op)}
    /\ UNCHANGED <<src, docs, mdocs, calls, analyzer>>

Key == Unwrap(call.key)

(* ------- CrateDownloader, DocGenerator (spec sections 4.2, 4.4) -------- *)

\* What download_or_copy_crate can answer for key k: it short-circuits on a
\* key that is already cached, and otherwise fails or delivers what the
\* upstream source holds.
download_or_copy_crate(k) ==
    IF is_cached(k) THEN {[ok |-> TRUE, content |-> Unwrap(src[k])]}
    ELSE {[ok |-> FALSE, content |-> [tree |-> PlainTree, rev |-> 1]]}
         \cup {[ok |-> TRUE, content |-> c] : c \in SrcContents}

\* The source directory of k holds content c.
acquired(k, c) ==
    /\ src' = [src EXCEPT ![k] = Some(c)]
    /\ UNCHANGED <<docs, mdocs>>

\* What generate_docs answers for k when the backend answers ok.
generate_docs_result(k, ok) ==
    IF ~is_cached(k) THEN "PreconditionError"
    ELSE IF ~ok THEN "GenerationError"
    ELSE "ok"

generate_member_result(k, member_path, ok) ==
    IF ~is_cached(k) THEN "PreconditionError"
    ELSE IF member_path \notin Unwrap(src[k]).tree.manifests THEN "MemberNotFound"
    ELSE IF ~ok THEN "GenerationError"
    ELSE "ok"

\* load_docs / load_member_docs of an artifact slot, with the deserialization
\* of service.rs lines 151-172.
load_result(slot, ok) ==
    IF ~IsSome(slot) THEN "NotFound"
    ELSE IF ~ok THEN "DeserializationError"
    ELSE "ok"

(* --------------- CacheTransaction (spec section 4.5) ------------------- *)

\* begin(): back the entry up, then remove the live entry.
begin(k) ==
    /\ backup' = Some(Entry(k))
    /\ storage_remove_crate(k)

\* commit(): the transaction is committed; the backup is discarded unless its
\* deletion fails (CleanupError), which leaves it behind.
commit(cleaned) ==
    /\ txn' = "Committed"
    /\ nTerm' = nTerm + 1
    /\ backup' = IF cleaned THEN None ELSE backup

\* The transaction goes out of scope: a pending one that holds a backup
\* restores it over the entry of k.
drop(k) ==
    IF txn = "Pending" /\ IsSome(backup)
      THEN /\ PutEntry(k, Unwrap(backup))
           /\ backup' = None
           /\ txn' = "RolledBack"
           /\ nTerm' = nTerm + 1
      ELSE UNCHANGED <<src, docs, mdocs, backup, txn, nTerm>>

(* ------------------------- ensure_crate_docs --------------------------- *)

\* Faulty variant: existing docs are not looked at.
ensure_crate_docs_pc_NoHit(hd, ic) ==
    IF ~ic THEN "e_acquire" ELSE "e_generate"

\* Faulty variant: the source is acquired whether or not the key is cached.
ensure_crate_docs_pc_AlwaysAcquire(hd, ic) ==
    IF hd THEN "e_load" ELSE "e_acquire"

\* ensure_crate_docs up to its first await, on a key that has docs iff hd and
\* is cached iff ic: the await it stops at, and the calls made on the way.
ensure_crate_docs_pc(hd, ic) ==
    IF hd THEN "e_load" ELSE IF ~ic THEN "e_acquire" ELSE "e_generate"

ensure_crate_docs_log(hd, ic) ==
    IF hd THEN <<Ev("has_docs", ""), Ev("load", "")>>
    ELSE IF ~ic THEN <<Ev("has_docs", ""), Ev("is_cached", ""), Ev("acquire", "")>>
    ELSE <<Ev("has_docs", ""), Ev("is_cached", ""), Ev("generate", "")>>

\* Faulty variant: on the plain path the error of ensure_crate_docs is passed on
\* unconverted.
EnsureReturns_Raises(r) ==
    CASE call.op = "cache" /\ ~call.updated ->
           /\ Return(IF r = "ok" THEN success(Key) ELSE Err(r))
           /\ UNCHANGED call
      [] call.op = "cache" /\ call.updated ->
           /\ pc' = IF r = "ok" THEN "commit" ELSE "u_failed"
           /\ call' = IF r = "ok" THEN [call EXCEPT !.resp = Some(success_updated(Key))]
                      ELSE [call EXCEPT !.err = r]
           /\ UNCHANGED outcome
      [] OTHER ->
           /\ Return(IF r = "ok" THEN Ok(docs[Key]) ELSE Err(r))
           /\ UNCHANGED call

\* ensure_crate_docs returned r ("ok" or the error) to its caller:
\* cache_regular_crate, cache_crate_with_update_impl, or the public caller.
EnsureReturns(r) ==
    CASE call.op = "cache" /\ ~call.updated ->
           /\ Return(IF r = "ok" THEN success(Key)
                     ELSE error(<<"Failed to cache crate", r>>))
           /\ UNCHANGED call
      [] call.op = "cache" /\ call.updated ->
           /\ pc' = IF r = "ok" THEN "commit" ELSE "u_failed"
           /\ call' = IF r = "ok" THEN [call EXCEPT !.resp = Some(success_updated(Key))]
                      ELSE [call EXCEPT !.err = r]
           /\ UNCHANGED outcome
      [] OTHER ->
           /\ Return(IF r = "ok" THEN Ok(docs[Key]) ELSE Err(r))
           /\ UNCHANGED call

\* lines 45-47: the acquisition of ensure_crate_docs completes.
EnsureAcquire ==
    /\ pc = "e_acquire"
    /\ \E r \in download_or_copy_crate(Key) :
         IF r.ok
           THEN /\ acquired(Key, r.content)
                /\ pc' = "e_generate"
                /\ Logged(<<Ev("generate", "")>>)
                /\ UNCHANGED <<call, outcome>>
           ELSE /\ EnsureReturns("AcquisitionError")
                /\ UNCHANGED <<src, docs, mdocs, log>>
    /\ UNCHANGED <<backup, txn, tasks, calls, last, held, analyzer, pre, nTerm>>

\* Faulty variant: a successful generation leaves no artifact behind.
EnsureGenerate_NoArtifact ==
    /\ pc = "e_generate"
    /\ \E ok \in BOOLEAN :
         LET r == generate_docs_result(Key, ok) IN
         IF r = "ok"
           THEN /\ pc' = "e_load"
                /\ Logged(<<Ev("load", "")>>)
                /\ UNCHANGED <<call, outcome>>
           ELSE /\ EnsureReturns(r)
                /\ UNCHANGED log
    /\ UNCHANGED <<src, docs, mdocs, backup, txn, tasks, calls, last, held, analyzer, pre, nTerm>>

\* line 50: the generation of ensure_crate_docs completes.
EnsureGenerate ==
    /\ pc = "e_generate"
    /\ \E ok \in BOOLEAN :
         LET r == generate_docs_result(Key, ok) IN
         IF r = "ok"
           THEN /\ docs' = [docs EXCEPT ![Key] = Some(Unwrap(src[Key]).rev)]
                /\ pc' = "e_load"
                /\ Logged(<<Ev("load", "")>>)
                /\ UNCHANGED <<call, outcome>>
           ELSE /\ EnsureReturns(r)
                /\ UNCHANGED <<docs, log>>
    /\ UNCHANGED <<src, mdocs, backup, txn, tasks, calls, last, held, analyzer, pre, nTerm>>

\* lines 41 and 53: the load of ensure_crate_docs completes.
EnsureLoad ==
    /\ pc = "e_load"
    /\ \E ok \in BOOLEAN : EnsureReturns(load_result(docs[Key], ok))
    /\ UNCHANGED <<src, docs, mdocs, backup, txn, tasks, log, calls, last, held, analyzer, pre, nTerm>>

\* The public operation ensure_crate_docs(name, version, source).
EnsureCrateDocs(k) ==
    /\ pc = "idle"
    /\ group_of("ensure_crate_docs") \in held
    /\ calls < MaxCalls
    /\ calls' = calls + 1
    /\ UNCHANGED <<last, held, analyzer>>
    /\ call' = [NoCall EXCEPT !.op = "ensure_crate_docs", !.key = Some(k)]
    /\ pc' = ensure_crate_docs_pc(has_docs(k), is_cached(k))
    /\ log' = ensure_crate_docs_log(has_docs(k), is_cached(k))
    /\ UNCHANGED <<src, docs, mdocs, backup, txn, tasks, outcome, pre, nTerm>>

\* Faulty variant: only the source directory of the key is deleted.
RemoveCrate_SourceOnly(k) ==
    /\ pc = "idle"
    /\ group_of("remove_crate") \in held
    /\ calls < MaxCalls
    /\ calls' = calls + 1
    /\ UNCHANGED <<last, held, analyzer>>
    /\ call' = [NoCall EXCEPT !.op = "remove_crate", !.key = Some(k)]
    /\ log' = <<Ev("remove", "")>>
    /\ src' = [src EXCEPT ![k] = None]
    /\ Return(IF Entry(k) # NoEntry THEN Ok(None) ELSE Err("NotFound"))
    /\ UNCHANGED <<docs, mdocs, backup, txn, tasks, pre, nTerm>>

\* Faulty variant: every version of the crate is deleted.
RemoveCrate_AllVersions(k) ==
    /\ pc = "idle"
    /\ group_of("remove_crate") \in held
    /\ calls < MaxCalls
    /\ calls' = calls + 1
    /\ UNCHANGED <<last, held, analyzer>>
    /\ call' = [NoCall EXCEPT !.op = "remove_crate", !.key = Some(k)]
    /\ log' = <<Ev("remove", "")>>
    /\ src' = [j \in StorageKeys |-> IF j[1] = k[1] THEN None ELSE src[j]]
    /\ docs' = [j \in StorageKeys |-> IF j[1] = k[1] THEN None ELSE docs[j]]
    /\ mdocs' = [j \in StorageKeys |-> IF j[1] = k[1] THEN NoMemberDocs ELSE mdocs[j]]
    /\ Return(IF Entry(k) # NoEntry THEN Ok(None) ELSE Err("NotFound"))
    /\ UNCHANGED <<backup, txn, tasks, pre, nTerm>>

\* The public operation remove_crate(name, version): storage.remove_crate,
\* which fails NotFound on an absent key.
RemoveCrate(k) ==
    /\ pc = "idle"
    /\ group_of("remove_crate") \in held
    /\ calls < MaxCalls
    /\ calls' = calls + 1
    /\ UNCHANGED <<last, held, analyzer>>
    /\ call' = [NoCall EXCEPT !.op = "remove_crate", !.key = Some(k)]
    /\ log' = <<Ev("remove", "")>>
    /\ IF Entry(k) # NoEntry
         THEN /\ storage_remove_crate(k)
              /\ Return(Ok(None))
         ELSE /\ UNCHANGED <<src, docs, mdocs>>
              /\ Return(Err("NotFound"))
    /\ UNCHANGED <<backup, txn, tasks, pre, nTerm>>

(* ----------------------- cache_crate_with_source ---------------------- *)

\* Faulty variant: the validation is missing.
github_ref_missing_never(source, version) == FALSE

\* lines 551-554: the validation of a GitHub source.
github_ref_missing(source, version) == source.kind = "github" /\ version = ""

\* Faulty variant: an update request opens a transaction on any key.
route_UpdateUncached(p, cached) ==
    IF p.update THEN "update"
    ELSE IF IsSome(p.members) THEN "members"
    ELSE "download"

\* Faulty variant: requested members are looked at before the update flag.
route_MembersFirst(p, cached) ==
    IF IsSome(p.members) THEN "members"
    ELSE IF p.update /\ cached THEN "update"
    ELSE "download"

\* lines 556-585: where cache_crate_with_source goes after the validation,
\* for extracted parameters p and a key that is cached iff cached.
route(p, cached) ==
    IF p.update /\ cached THEN "update"
    ELSE IF IsSome(p.members) THEN "members"
    ELSE "download"

\* lines 546-581: extraction, validation and dispatch, up to the first await
\* or to the call of handle_crate_update / handle_workspace_members.
CacheCrateWithSource(source) ==
    /\ pc = "idle"
    /\ group_of("cache") \in held
    /\ calls < MaxCalls
    /\ calls' = calls + 1
    /\ UNCHANGED <<last, held, analyzer>>
    /\ LET p == extract_source_params(source)
           k == <<p.crate_name, p.version>>
           c == [NoCall EXCEPT !.op = "cache", !.members = p.members,
                               \* source is read only by generate_workspace_response
                               !.kind = IF IsSome(p.members) THEN "" ELSE source.kind]
       IN
       IF github_ref_missing(source, p.version)
         THEN /\ Return(error(<<"Either branch or tag must be specified">>))
              /\ call' = c
              /\ log' = <<>>
         ELSE /\ call' = [c EXCEPT !.key = Some(k)]
              /\ UNCHANGED outcome
              /\ pc' = route(p, is_cached(k))
              \* is_cached is evaluated only when update is set (line 557)
              /\ log' = (IF p.update THEN <<Ev("is_cached", "")>> ELSE <<>>)
                        \o (IF route(p, is_cached(k)) = "download"
                              THEN <<Ev("acquire", "")>> ELSE <<>>)
    /\ UNCHANGED <<src, docs, mdocs, backup, txn, tasks, pre, nTerm>>

\* lines 584-592: download_or_copy_crate completes.
Download ==
    /\ pc = "download"
    /\ \E r \in download_or_copy_crate(Key) :
         IF r.ok
           THEN /\ acquired(Key, r.content)
                /\ pc' = "detect"
                /\ UNCHANGED outcome
           ELSE /\ Return(error(<<"Failed to download crate", "AcquisitionError">>))
                /\ UNCHANGED <<src, docs, mdocs>>
    /\ UNCHANGED <<backup, txn, call, tasks, log, calls, last, held, analyzer, pre, nTerm>>

\* Faulty variant: a manifest that cannot be read fails the request.
DetectAndHandleWorkspace_ParseFails ==
    /\ pc = "detect"
    /\ \E parsed, listed \in BOOLEAN :
         IF ~parsed
           THEN /\ listed
                /\ Logged(<<Ev("is_workspace", "ParseError")>>)
                /\ Return(error(<<"Failed to cache crate", "ParseError">>))
                /\ UNCHANGED call
         ELSE IF is_workspace(Key)
           THEN /\ Logged(<<Ev("is_workspace", ""), Ev("get_workspace_members", "")>>)
                /\ Return(IF listed
                            THEN generate_workspace_response(
                                     Key, get_workspace_members(Key), call.kind, FALSE)
                            ELSE error(<<"Failed to cache crate",
                                         "Failed to get workspace members">>))
                /\ UNCHANGED call
           ELSE /\ listed
                /\ pc' = ensure_crate_docs_pc(has_docs(Key), is_cached(Key))
                /\ Logged(<<Ev("is_workspace", "")>>
                          \o ensure_crate_docs_log(has_docs(Key), is_cached(Key)))
                /\ UNCHANGED <<call, outcome>>
    /\ UNCHANGED <<src, docs, mdocs, backup, txn, tasks, calls, last, held, analyzer, pre, nTerm>>

\* lines 501-530 (with 595-608): detect_and_handle_workspace.  parsed: the
\* manifest could be read; listed: so could its member list.
DetectAndHandleWorkspace ==
    /\ pc = "detect"
    /\ \E parsed, listed \in BOOLEAN :
         IF parsed /\ is_workspace(Key)
           THEN /\ Logged(<<Ev("is_workspace", ""), Ev("get_workspace_members", "")>>)
                /\ Return(IF listed
                            THEN generate_workspace_response(
                                     Key, get_workspace_members(Key), call.kind, FALSE)
                            ELSE error(<<"Failed to cache crate",
                                         "Failed to get workspace members">>))
                /\ UNCHANGED call
           ELSE /\ listed
                /\ pc' = ensure_crate_docs_pc(has_docs(Key), is_cached(Key))
                /\ Logged(<<Ev("is_workspace", IF parsed THEN "" ELSE "ParseError")>>
                          \o ensure_crate_docs_log(has_docs(Key), is_cached(Key)))
                /\ UNCHANGED <<call, outcome>>
    /\ UNCHANGED <<src, docs, mdocs, backup, txn, tasks, calls, last, held, analyzer, pre, nTerm>>

(* ------------------------- handle_crate_update ------------------------- *)

\* Faulty variant: begin() is never called; the re-cache runs on the live entry.
HandleCrateUpdate_NoBegin ==
    /\ pc = "update"
    /\ txn' = "Pending"
    /\ pre' = Some(Entry(Key))
    /\ call' = [call EXCEPT !.updated = TRUE]
    /\ pc' = IF IsSome(call.members) THEN "members" ELSE "u_download"
    /\ Logged(IF IsSome(call.members) THEN <<>> ELSE <<Ev("acquire", "")>>)
    /\ UNCHANGED <<src, docs, mdocs, backup, outcome, tasks, calls, last, held, analyzer, nTerm>>

\* Faulty variant: a begin() that fails has already removed the live entry.
HandleCrateUpdate_BeginClears ==
    /\ pc = "update"
    /\ txn' = "Pending"
    /\ storage_remove_crate(Key)
    /\ Return(error(<<"Failed to start update transaction", "BackupError">>))
    /\ Logged(<<Ev("begin", "")>>)
    /\ UNCHANGED <<backup, call, pre, tasks, calls, last, held, analyzer, nTerm>>

\* lines 454-466: the transaction is created and begun, and
\* cache_crate_with_update_impl runs up to its first await (lines 278-299).
HandleCrateUpdate ==
    /\ pc = "update"
    /\ \/ /\ txn' = "Pending"
          /\ Return(error(<<"Failed to start update transaction", "BackupError">>))
          /\ Logged(<<Ev("begin", "")>>)
          /\ UNCHANGED <<src, docs, mdocs, backup, call, pre>>
       \/ /\ txn' = "Pending"
          /\ begin(Key)
          /\ pre' = Some(Entry(Key))
          /\ call' = [call EXCEPT !.updated = TRUE]
          /\ pc' = IF IsSome(call.members) THEN "members" ELSE "u_download"
          /\ Logged(<<Ev("begin", "")>>
                    \o (IF IsSome(call.members) THEN <<>> ELSE <<Ev("acquire", "")>>))
          /\ UNCHANGED outcome
    /\ UNCHANGED <<tasks, calls, last, held, analyzer, nTerm>>

\* lines 297-299: the download of the update completes.
UpdateDownload ==
    /\ pc = "u_download"
    /\ \E r \in download_or_copy_crate(Key) :
         IF r.ok
           THEN /\ acquired(Key, r.content)
                /\ pc' = "u_detect"
                /\ UNCHANGED call
           ELSE /\ pc' = "u_failed"
                /\ call' = [call EXCEPT !.err = "AcquisitionError"]
                /\ UNCHANGED <<src, docs, mdocs>>
    /\ UNCHANGED <<backup, txn, tasks, outcome, log, calls, last, held, analyzer, pre, nTerm>>

\* Faulty variant: the update of a regular crate reports success without
\* running ensure_crate_docs.
UpdateDetect_NoEnsure ==
    /\ pc = "u_detect"
    /\ \E parsed, listed \in BOOLEAN :
         IF ~parsed
           THEN /\ listed
                /\ pc' = "u_failed"
                /\ call' = [call EXCEPT !.err = "ParseError"]
                /\ Logged(<<Ev("is_workspace", "ParseError")>>)
         ELSE IF is_workspace(Key)
           THEN /\ Logged(<<Ev("is_workspace", ""), Ev("get_workspace_members", "")>>)
                /\ pc' = IF listed THEN "commit" ELSE "u_failed"
                /\ call' = IF listed
                             THEN [call EXCEPT !.resp =
                                     Some(generate_workspace_response(
                                            Key, get_workspace_members(Key), call.kind, TRUE))]
                             ELSE [call EXCEPT !.err = "ParseError"]
           ELSE /\ listed
                /\ pc' = "commit"
                /\ Logged(<<Ev("is_workspace", "")>>)
                /\ call' = [call EXCEPT !.resp = Some(success_updated(Key))]
    /\ UNCHANGED <<src, docs, mdocs, backup, txn, tasks, outcome, calls, last, held, analyzer, pre, nTerm>>

\* lines 301-313: workspace inspection inside the update.
UpdateDetect ==
    /\ pc = "u_detect"
    /\ \E parsed, listed \in BOOLEAN :
         IF ~parsed
           THEN /\ listed
                /\ pc' = "u_failed"
                /\ call' = [call EXCEPT !.err = "ParseError"]
                /\ Logged(<<Ev("is_workspace", "ParseError")>>)
         ELSE IF is_workspace(Key)
           THEN /\ Logged(<<Ev("is_workspace", ""), Ev("get_workspace_members", "")>>)
                /\ pc' = IF listed THEN "commit" ELSE "u_failed"
                /\ call' = IF listed
                             THEN [call EXCEPT !.resp =
                                     Some(generate_workspace_response(
                                            Key, get_workspace_members(Key), call.kind, TRUE))]
                             ELSE [call EXCEPT !.err = "ParseError"]
           ELSE /\ listed
                /\ pc' = ensure_crate_docs_pc(has_docs(Key), is_cached(Key))
                /\ Logged(<<Ev("is_workspace", "")>>
                          \o ensure_crate_docs_log(has_docs(Key), is_cached(Key)))
                /\ UNCHANGED call
    /\ UNCHANGED <<src, docs, mdocs, backup, txn, tasks, outcome, calls, last, held, analyzer, pre, nTerm>>

\* lines 470-479: update_result is Ok(response): commit, then return; the
\* transaction is dropped on return.
UpdateSucceeded ==
    /\ pc = "commit"
    /\ \E cleaned \in BOOLEAN :
         /\ commit(cleaned)
         /\ Return(IF cleaned THEN Unwrap(call.resp)
                   ELSE error(<<"Update succeeded but failed to cleanup", "CleanupError">>))
    /\ Logged(<<Ev("commit", "")>>)
    /\ UNCHANGED <<src, docs, mdocs, call, tasks, calls, last, held, analyzer, pre>>

\* Faulty variant: the error arm leaks the transaction, so that it is never dropped.
UpdateFailed_Forget ==
    /\ pc = "u_failed"
    /\ Return(error(<<"Update failed, restored from backup", call.err>>))
    /\ Logged(<<Ev("drop", "")>>)
    /\ UNCHANGED <<src, docs, mdocs, backup, txn, nTerm, call, tasks, calls, last, held, analyzer, pre>>

\* lines 480-485: update_result is Err(e): the error is returned and the
\* transaction, still pending, is dropped.
UpdateFailed ==
    /\ pc = "u_failed"
    /\ Return(error(<<"Update failed, restored from backup", call.err>>))
    /\ drop(Key)
    /\ Logged(<<Ev("drop", "")>>)
    /\ UNCHANGED <<call, tasks, calls, last, held, analyzer, pre>>

(* ------------- ensure_workspace_member_docs, the fan-out --------------- *)

\* lines 65-77: ensure_workspace_member_docs up to its first await.  hit: the
\* member's docs existed; acquires: the key was not cached, so the task issued
\* the acquisition itself.  acq, gen, load: what the backends answered to the
\* task's own calls ("" while unanswered).
TaskStart(k, member) ==
    LET hit == has_member_docs(k, extract_member_name(member))
    IN [member |-> member,
        pc |-> IF hit THEN "loading" ELSE IF ~is_cached(k) THEN "acquiring" ELSE "generating",
        hit |-> hit,
        acquires |-> ~hit /\ ~is_cached(k),
        acq |-> "", gen |-> "", load |-> "",
        res |-> ""]

Answers == {"ok", "failed"}

\* What the upstream source of k holds while a fan-out runs: every
\* acquisition of the fan-out that succeeds delivers it.
Upstreams(ts) ==
    IF \E i \in 1..Len(ts) : ts[i].acquires THEN {Some(c) : c \in SrcContents}
    ELSE {None}

\* lines 376-396: cache_workspace_members builds one future per member and
\* join_all polls each of them once, in order: every task runs to its first
\* suspension point before any completion is delivered.
FanOutStart ==
    /\ pc = "members"
    /\ LET ms == Unwrap(call.members)
           ts == [i \in 1..Len(ms) |-> TaskStart(Key, ms[i])]
       IN /\ tasks' = ts
          /\ \E up \in Upstreams(ts) : call' = [call EXCEPT !.up = up]
    /\ pc' = "join"
    /\ UNCHANGED <<src, docs, mdocs, backup, txn, outcome, log, calls, last, held, analyzer, pre, nTerm>>

TaskDone(t, r) == [t EXCEPT !.pc = "done", !.res = r]

\* Faulty variant: a failed acquisition cancels the tasks that are still running
\* (a fail-fast join).
TaskAcquire_FailFast(i) ==
    /\ pc = "join"
    /\ tasks[i].pc = "acquiring"
    /\ \E a \in Answers :
         LET t == [tasks[i] EXCEPT !.acq = a] IN
         IF a = "ok"
           THEN /\ acquired(Key, Unwrap(call.up))
                /\ tasks' = [tasks EXCEPT ![i] = [t EXCEPT !.pc = "generating"]]
           ELSE /\ tasks' = [j \in 1..Len(tasks) |->
                               IF j = i THEN TaskDone(t, "AcquisitionError")
                               ELSE IF tasks[j].pc = "done" THEN tasks[j]
                               ELSE TaskDone(tasks[j], "Cancelled")]
                /\ UNCHANGED <<src, docs, mdocs>>
    /\ UNCHANGED <<backup, txn, pc, call, outcome, log, calls, last, held, analyzer, pre, nTerm>>

\* lines 72-77: the acquisition of task i completes.
TaskAcquire(i) ==
    /\ pc = "join"
    /\ tasks[i].pc = "acquiring"
    /\ \E a \in Answers :
         LET t == [tasks[i] EXCEPT !.acq = a] IN
         IF a = "ok"
           THEN /\ acquired(Key, Unwrap(call.up))
                /\ tasks' = [tasks EXCEPT ![i] = [t EXCEPT !.pc = "generating"]]
           ELSE /\ tasks' = [tasks EXCEPT ![i] = TaskDone(t, "AcquisitionError")]
                /\ UNCHANGED <<src, docs, mdocs>>
    /\ UNCHANGED <<backup, txn, pc, call, outcome, log, calls, last, held, analyzer, pre, nTerm>>

\* lines 77-81: the member generation of task i completes.
TaskGenerate(i) ==
    /\ pc = "join"
    /\ tasks[i].pc = "generating"
    /\ \E a \in Answers :
         LET t == [tasks[i] EXCEPT !.gen = a]
             r == generate_member_result(Key, t.member, a = "ok")
             name == extract_member_name(t.member)
         IN IF r = "ok"
              THEN /\ mdocs' = [mdocs EXCEPT ![Key][name] = Some(Unwrap(src[Key]).rev)]
                   /\ tasks' = [tasks EXCEPT ![i] = [t EXCEPT !.pc = "loading"]]
              ELSE /\ tasks' = [tasks EXCEPT ![i] = TaskDone(t, r)]
                   /\ UNCHANGED mdocs
    /\ UNCHANGED <<src, docs, backup, txn, pc, call, outcome, log, calls, last, held, analyzer, pre, nTerm>>

\* lines 68 and 81: the load of task i completes.
TaskLoad(i) ==
    /\ pc = "join"
    /\ tasks[i].pc = "loading"
    /\ \E a \in Answers :
         LET t == [tasks[i] EXCEPT !.load = a]
             r == load_result(mdocs[Key][extract_member_name(t.member)], a = "ok")
         IN tasks' = [tasks EXCEPT ![i] = TaskDone(t, r)]
    /\ UNCHANGED <<src, docs, mdocs, backup, txn, pc, call, outcome, log, calls, last, held, analyzer, pre, nTerm>>

\* Faulty variant: the join completes as soon as one future has failed
\* (try_join_all).
JoinReady_FirstError ==
    \/ \A i \in 1..Len(tasks) : tasks[i].pc = "done"
    \/ \E i \in 1..Len(tasks) : tasks[i].pc = "done" /\ tasks[i].res # "ok"

\* line 396: join_all completes once every future has completed.
JoinReady == \A i \in 1..Len(tasks) : tasks[i].pc = "done"

Indices(ts, succeeded) ==
    SelectSeq([i \in 1..Len(ts) |-> i], LAMBDA i : (ts[i].res = "ok") = succeeded)

\* Faulty variant: one failed member makes the whole response an Error.
cache_workspace_members_AllOrNothing(k, members, ts, updated) ==
    IF \E i \in 1..Len(ts) : ts[i].res # "ok"
      THEN error(<<"Failed to cache members", "">>)
      ELSE members_success(k, members,
                           [j \in 1..Len(ts) |-> SuccessMsg(ts[j].member)], updated)

\* Faulty variant: when every member failed the response is an Error.
cache_workspace_members_AllFailedIsError(k, members, ts, updated) ==
    IF ts # <<>> /\ \A i \in 1..Len(ts) : ts[i].res # "ok"
      THEN error(<<"Failed to cache members", "">>)
    ELSE IF \E i \in 1..Len(ts) : ts[i].res # "ok"
      THEN members_partial(k, members,
                           [j \in 1..Len(Indices(ts, TRUE)) |->
                              SuccessMsg(ts[Indices(ts, TRUE)[j]].member)],
                           [j \in 1..Len(Indices(ts, FALSE)) |->
                              FailureMsg(ts[Indices(ts, FALSE)[j]].member,
                                         ts[Indices(ts, FALSE)[j]].res)],
                           updated)
    ELSE members_success(k, members,
                         [j \in 1..Len(ts) |-> SuccessMsg(ts[j].member)], updated)

\* lines 398-425: the results are split, in task order, and aggregated.
cache_workspace_members(k, members, ts, updated) ==
    LET okIdx == Indices(ts, TRUE)
        errIdx == Indices(ts, FALSE)
        results == [j \in 1..Len(okIdx) |-> SuccessMsg(ts[okIdx[j]].member)]
        errors == [j \in 1..Len(errIdx) |->
                     FailureMsg(ts[errIdx[j]].member, ts[errIdx[j]].res)]
    IN IF errors = <<>>
         THEN members_success(k, members, results, updated)
         ELSE members_partial(k, members, results, errors, updated)

\* Faulty variant: one failed member makes the update fail.
no_member_updated_AnyError(response) == response.kind = "PartialSuccess"

\* Faulty variant: the check for "all failed" is missing.
no_member_updated_Never(response) == FALSE

\* lines 285-289: every requested member failed.
no_member_updated(response) ==
    response.kind = "PartialSuccess" /\ response.results = <<>>

\* lines 396-425, and what the caller does with the response: lines 570-581
\* return it, lines 279-294 bail when no member succeeded.
Join ==
    /\ pc = "join"
    /\ call.op = "cache"
    /\ JoinReady
    /\ LET response == cache_workspace_members(Key, Unwrap(call.members), tasks,
                                                call.updated)
       IN IF ~call.updated
            THEN /\ Return(response)
                 /\ UNCHANGED call
          ELSE IF no_member_updated(response)
            THEN /\ pc' = "u_failed"
                 /\ call' = [call EXCEPT !.err = "Failed to update any workspace members"]
                 /\ UNCHANGED outcome
          ELSE /\ pc' = "commit"
               /\ call' = [call EXCEPT !.resp = Some(response)]
               /\ UNCHANGED outcome
    /\ UNCHANGED <<src, docs, mdocs, backup, txn, tasks, log, calls, last, held, analyzer, pre, nTerm>>

\* The public operation ensure_workspace_member_docs(name, version, source,
\* member_path): one task, lines 57-82.
EnsureWorkspaceMemberDocs(k, member) ==
    /\ pc = "idle"
    /\ group_of("ensure_workspace_member_docs") \in held
    /\ calls < MaxCalls
    /\ calls' = calls + 1
    /\ UNCHANGED <<last, held, analyzer>>
    /\ LET ts == <<TaskStart(k, member)>> IN
         /\ tasks' = ts
         /\ \E up \in Upstreams(ts) :
              call' = [NoCall EXCEPT !.op = "ensure_workspace_member_docs",
                                     !.key = Some(k), !.up = up]
    /\ log' = <<>>
    /\ pc' = "join"
    /\ UNCHANGED <<src, docs, mdocs, backup, txn, outcome, pre, nTerm>>

\* ensure_workspace_member_docs returns what its task ended with.
EnsureMemberReturns ==
    /\ pc = "join"
    /\ call.op \in {"ensure_workspace_member_docs", "ensure_crate_or_member_docs"}
    /\ tasks[1].pc = "done"
    /\ Return(IF tasks[1].res = "ok"
                THEN Ok(mdocs[Key][extract_member_name(tasks[1].member)])
                ELSE Err(tasks[1].res))
    /\ UNCHANGED <<src, docs, mdocs, backup, txn, call, tasks, log, calls, last, held, analyzer, pre, nTerm>>

\* The public operation ensure_crate_or_member_docs(name, version, member),
\* lines 85-119, up to its first await.  parsed, listed: the root manifest
\* and its member list could be read.
EnsureCrateOrMemberDocs(k, member) ==
    /\ pc = "idle"
    /\ group_of("ensure_crate_or_member_docs") \in held
    /\ calls < MaxCalls
    /\ calls' = calls + 1
    /\ UNCHANGED <<last, held, analyzer>>
    /\ LET c == [NoCall EXCEPT !.op = "ensure_crate_or_member_docs", !.key = Some(k)] IN
       IF IsSome(member)
         THEN LET ts == <<TaskStart(k, Unwrap(member))>> IN
              /\ tasks' = ts
              /\ \E up \in Upstreams(ts) : call' = [c EXCEPT !.up = up]
              /\ pc' = "join"
              /\ log' = <<>>
              /\ UNCHANGED outcome
         ELSE /\ tasks' = <<>>
              /\ call' = c
              /\ \E parsed, listed \in BOOLEAN :
                   IF is_cached(k) /\ (~parsed \/ is_workspace(k))
                     THEN /\ log' = <<Ev("is_cached", ""), Ev("is_workspace", "")>>
                          /\ Return(IF parsed /\ listed
                                      THEN AmbiguousWorkspace(get_workspace_members(k))
                                      ELSE Err("ParseError"))
                     ELSE /\ parsed /\ listed
                          /\ pc' = ensure_crate_docs_pc(has_docs(k), is_cached(k))
                          /\ log' = <<Ev("is_cached", "")>>
                                    \o (IF is_cached(k) THEN <<Ev("is_workspace", "")>> ELSE <<>>)
                                    \o ensure_crate_docs_log(has_docs(k), is_cached(k))
                          /\ UNCHANGED outcome
    /\ UNCHANGED <<src, docs, mdocs, backup, txn, pre, nTerm>>

(* ------------- ensure_crate_source, ensure_crate_or_member_source ------ *)

\* Faulty variant: the source is acquired whether or not the key is cached.
EnsureSource_AlwaysAcquire(op, k, member) ==
    /\ pc = "idle"
    /\ group_of(op) \in held
    /\ calls < MaxCalls
    /\ calls' = calls + 1
    /\ UNCHANGED <<last, held, analyzer>>
    /\ call' = [NoCall EXCEPT !.op = op, !.key = Some(k),
                              !.members = IF IsSome(member) THEN Some(member) ELSE None]
    /\ pc' = "s_acquire"
    /\ log' = <<Ev("is_cached", ""), Ev("acquire", "")>>
    /\ UNCHANGED <<src, docs, mdocs, backup, txn, tasks, outcome, pre, nTerm>>

\* The public operations ensure_crate_source (lines 204-216; member is None)
\* and ensure_crate_or_member_source (lines 219-227), up to the first await.
EnsureSource(op, k, member) ==
    /\ pc = "idle"
    /\ group_of(op) \in held
    /\ calls < MaxCalls
    /\ calls' = calls + 1
    /\ UNCHANGED <<last, held, analyzer>>
    /\ call' = [NoCall EXCEPT !.op = op, !.key = Some(k),
                              !.members = IF IsSome(member) THEN Some(member) ELSE None]
    /\ pc' = IF is_cached(k) THEN "s_classify" ELSE "s_acquire"
    /\ log' = <<Ev("is_cached", "")>>
              \o (IF is_cached(k) THEN <<>> ELSE <<Ev("acquire", "")>>)
    /\ UNCHANGED <<src, docs, mdocs, backup, txn, tasks, outcome, pre, nTerm>>

\* lines 211-213: the acquisition of ensure_crate_source completes.
SourceAcquire ==
    /\ pc = "s_acquire"
    /\ \E r \in download_or_copy_crate(Key) :
         IF r.ok
           THEN /\ acquired(Key, r.content)
                /\ pc' = "s_classify"
                /\ UNCHANGED outcome
           ELSE /\ Return(Err("AcquisitionError"))
                /\ UNCHANGED <<src, docs, mdocs>>
    /\ UNCHANGED <<backup, txn, call, tasks, log, calls, last, held, analyzer, pre, nTerm>>

\* Faulty variant: the member's manifest is not looked for.
SourceReturns_NoMemberCheck ==
    /\ pc = "s_classify"
    /\ \E parsed, listed \in BOOLEAN :
         IF call.op = "ensure_crate_source"
           THEN /\ parsed /\ listed
                /\ Return(OkPath(source_path(Key)))
                /\ UNCHANGED log
         ELSE IF IsSome(call.members)
           THEN /\ parsed /\ listed
                /\ Return(OkPath(member_source_path(Key, Unwrap(call.members)[1])))
                /\ UNCHANGED log
         ELSE IF ~parsed \/ is_workspace(Key)
           THEN /\ Return(IF parsed /\ listed
                            THEN AmbiguousWorkspace(get_workspace_members(Key))
                            ELSE Err("ParseError"))
                /\ Logged(<<Ev("is_workspace", "")>>)
         ELSE /\ listed
              /\ Return(OkPath(source_path(Key)))
              /\ Logged(<<Ev("is_workspace", "")>>)
    /\ UNCHANGED <<src, docs, mdocs, backup, txn, call, tasks, calls, last, held, analyzer, pre, nTerm>>

\* line 215, and lines 229-261: the source is there; the path is returned, or
\* the member is not found, or the workspace is ambiguous.
SourceReturns ==
    /\ pc = "s_classify"
    /\ \E parsed, listed \in BOOLEAN :
         IF call.op = "ensure_crate_source"
           THEN /\ parsed /\ listed
                /\ Return(OkPath(source_path(Key)))
                /\ UNCHANGED log
         ELSE IF IsSome(call.members)
           THEN /\ parsed /\ listed
                /\ Return(IF Unwrap(call.members)[1] \in Unwrap(src[Key]).tree.manifests
                            THEN OkPath(member_source_path(Key, Unwrap(call.members)[1]))
                            ELSE Err("MemberNotFound"))
                /\ UNCHANGED log
         ELSE IF ~parsed \/ is_workspace(Key)
           THEN /\ Return(IF parsed /\ listed
                            THEN AmbiguousWorkspace(get_workspace_members(Key))
                            ELSE Err("ParseError"))
                /\ Logged(<<Ev("is_workspace", "")>>)
         ELSE /\ listed
              /\ Return(OkPath(source_path(Key)))
              /\ Logged(<<Ev("is_workspace", "")>>)
    /\ UNCHANGED <<src, docs, mdocs, backup, txn, call, tasks, calls, last, held, analyzer, pre, nTerm>>

(* ------------------------------ the system ----------------------------- *)

\* A tool of group g is invoked: it locks the mutex of its group, and holds
\* the guard until its request has returned (Finish).
Lock(g) ==
    /\ calls < MaxCalls
    /\ g \notin held
    /\ \A h \in held : RustDocsService_new(h) # RustDocsService_new(g)
    /\ held' = held \cup {g}
    /\ UNCHANGED <<src, docs, mdocs, backup, txn, pc, call, tasks, outcome, log, calls,
                   pre, nTerm, last, analyzer>>

Next ==
    \/ \E g \in ToolGroups : Lock(g)
    \/ \E source \in Sources : CacheCrateWithSource(source)
    \/ Download
    \/ DetectAndHandleWorkspace
    \/ HandleCrateUpdate
    \/ UpdateDownload
    \/ UpdateDetect
    \/ UpdateSucceeded
    \/ UpdateFailed
    \/ FanOutStart
    \/ \E i \in 1..Len(tasks) : TaskAcquire(i)
    \/ \E i \in 1..Len(tasks) : TaskGenerate(i)
    \/ \E i \in 1..Len(tasks) : TaskLoad(i)
    \/ Join
    \/ \E k \in Keys : EnsureCrateDocs(k)
    \/ EnsureAcquire
    \/ EnsureGenerate
    \/ EnsureLoad
    \/ \E k \in Keys, member \in MemberPaths : EnsureWorkspaceMemberDocs(k, member)
    \/ EnsureMemberReturns
    \/ \E k \in Keys, member \in Opt(MemberPaths) : EnsureCrateOrMemberDocs(k, member)
    \/ \E k \in Keys : EnsureSource("ensure_crate_source", k, None)
    \/ \E k \in Keys, member \in Opt(MemberPaths) :
         EnsureSource("ensure_crate_or_member_source", k, member)
    \/ SourceAcquire
    \/ SourceReturns
    \/ \E k \in Keys : RemoveCrate(k)
    \/ Finish

Spec == Init /\ [][Next]_vars

\* The cache directory is durable: a CrateCache constructed over a directory
\* in which an earlier run cached alpha v2 and generated its docs.
InitCached ==
    /\ src = [k \in StorageKeys |->
                IF k = <<"alpha", "v2">> THEN Some([tree |-> PlainTree, rev |-> 1]) ELSE None]
    /\ docs = [k \in StorageKeys |-> IF k = <<"alpha", "v2">> THEN Some(1) ELSE None]
    /\ mdocs = [k \in StorageKeys |-> NoMemberDocs]
    /\ backup = None
    /\ txn = "none"
    /\ pc = "idle"
    /\ call = NoCall
    /\ tasks = <<>>
    /\ outcome = None
    /\ log = <<>>
    /\ calls = 0
    /\ pre = None
    /\ nTerm = 0
    /\ last = None
    /\ held = {}
    /\ analyzer = NoAnalysis

SpecCached == InitCached /\ [][Next]_vars

TypeOK ==
    /\ pc \in {"idle", "returned", "download", "detect", "update", "u_download",
               "u_detect", "commit", "u_failed", "members", "join",
               "e_acquire", "e_generate", "e_load", "s_acquire", "s_classify"}
    /\ txn \in {"none", "Pending", "Committed", "RolledBack"}
    /\ calls \in 0..MaxCalls

(* ------------------- cargo-modules: one analysis ----------------------- *)

\* load_workspace is called on a manifest with its options, or
\* use_tree_matches_item_path on a use tree and an item path.
InitAnalyzer ==
    /\ src = [k \in StorageKeys |-> None]
    /\ docs = [k \in StorageKeys |-> None]
    /\ mdocs = [k \in StorageKeys |-> NoMemberDocs]
    /\ backup = None
    /\ txn = "none"
    /\ pc = "idle"
    /\ call = NoCall
    /\ tasks = <<>>
    /\ outcome = None
    /\ log = <<>>
    /\ calls = 0
    /\ pre = None
    /\ nTerm = 0
    /\ last = None
    /\ held = {}
    /\ analyzer \in
         {[NoAnalysis EXCEPT !.fn = "load_workspace", !.pc = "start",
                             !.workspace = w, !.options = o] :
            w \in Workspaces, o \in ProjectOptions}
         \cup
         {[NoAnalysis EXCEPT !.fn = "use_tree_matches_item_path", !.pc = "start",
                             !.use_tree = t, !.path = p] :
            t \in UseTrees, p \in Paths}

AnalyzerReturns(a, r) == [a EXCEPT !.pc = "returned", !.result = r]

\* analyzer.rs lines 35-51: the manifest path is canonicalized, the two
\* configurations are made and the project workspace is loaded.
LoadProjectWorkspace ==
    /\ analyzer.fn = "load_workspace"
    /\ analyzer.pc = "start"
    /\ \E canonical, loaded \in BOOLEAN, kind \in WorkspaceKinds :
         analyzer' =
           IF ~canonical THEN AnalyzerReturns(analyzer, "Err")
           ELSE LET a == [analyzer EXCEPT !.config = Some(load_config),
                                          !.events = <<"load_project_workspace">>]
                IN  IF ~loaded THEN AnalyzerReturns(a, "Err")
                    ELSE [a EXCEPT !.pc = "workspace", !.kind = kind]
    /\ UNCHANGED <<src, docs, mdocs, backup, txn, pc, call, tasks, outcome, log, calls,
                   pre, nTerm, last, held>>

\* analyzer.rs lines 201-213: select_package_and_target, up to the package.
SelectPackage ==
    /\ analyzer.pc = "workspace"
    /\ analyzer' =
         IF analyzer.kind # "Cargo" THEN AnalyzerReturns(analyzer, "Err")
         ELSE LET package_idx == select_package(analyzer.workspace, analyzer.options)
                  a == [analyzer EXCEPT !.package = Some(package_idx),
                                        !.events = @ \o <<"select_package">>]
              IN  IF package_idx.ok THEN [a EXCEPT !.pc = "package"]
                  ELSE AnalyzerReturns(a, "Err")
    /\ UNCHANGED <<src, docs, mdocs, backup, txn, pc, call, tasks, outcome, log, calls,
                   pre, nTerm, last, held>>

\* analyzer.rs lines 214-219: the target, among the targets the selected
\* package has.
SelectTarget ==
    /\ analyzer.pc = "package"
    /\ \E package_targets \in TargetLists :
         LET target_idx == select_target(package_targets, analyzer.options)
             a == [analyzer EXCEPT !.targets = package_targets,
                                   !.target = Some(target_idx),
                                   !.events = @ \o <<"select_target">>]
         IN  analyzer' = IF target_idx.ok THEN [a EXCEPT !.pc = "target"]
                         ELSE AnalyzerReturns(a, "Err")
    /\ UNCHANGED <<src, docs, mdocs, backup, txn, pc, call, tasks, outcome, log, calls,
                   pre, nTerm, last, held>>

\* analyzer.rs lines 62-77: build scripts if the configuration asks for them,
\* then the workspace is loaded into a database and the crate is looked up.
LoadCrate ==
    /\ analyzer.pc = "target"
    /\ \E scripts, loaded, found \in BOOLEAN :
         LET from_check == Unwrap(analyzer.config).load_out_dirs_from_check
             a == [analyzer EXCEPT !.events =
                     @ \o (IF from_check THEN <<"run_build_scripts">> ELSE <<>>)
                       \o (IF from_check /\ ~scripts THEN <<>>
                           ELSE <<"load_workspace">>
                                  \o (IF loaded THEN <<"find_crate">> ELSE <<>>))]
         IN  analyzer' = AnalyzerReturns(a,
                           IF (from_check /\ ~scripts) \/ ~loaded \/ ~found
                             THEN "Err" ELSE "Ok")
    /\ UNCHANGED <<src, docs, mdocs, backup, txn, pc, call, tasks, outcome, log, calls,
                   pre, nTerm, last, held>>

\* analyzer.rs lines 705-726.
UseTreeMatchesItemPath ==
    /\ analyzer.fn = "use_tree_matches_item_path"
    /\ analyzer.pc = "start"
    /\ analyzer' = [analyzer EXCEPT
                      !.pc = "returned",
                      !.matches = Some(use_tree_matches_item_path(analyzer.use_tree,
                                                                  analyzer.path))]
    /\ UNCHANGED <<src, docs, mdocs, backup, txn, pc, call, tasks, outcome, log, calls,
                   pre, nTerm, last, held>>

NextAnalyzer ==
    \/ LoadProjectWorkspace
    \/ SelectPackage
    \/ SelectTarget
    \/ LoadCrate
    \/ UseTreeMatchesItemPath

SpecAnalyzer == InitAnalyzer /\ [][NextAnalyzer]_vars

(* ------------------------------- properties --------------------------- *)

\* The request is inside handle_crate_update and begin() has succeeded.
AfterBegin == call.op = "cache" /\ call.updated

\* The wrapped re-cache failed: a step of the sequential path raised, or every
\* requested member failed.
ReCacheFailed ==
    IF IsSome(call.members)
      THEN tasks # <<>> /\ \A i \in 1..Len(tasks) : tasks[i].pc = "done" /\ tasks[i].res # "ok"
      ELSE call.err # ""

\* C1: when an update whose begin() succeeded returns after its re-cache
\* failed (at acquisition, inspection, generation, load, or with every
\* requested member failing), the entry of the key -- source, package artifact
\* and member artifacts -- equals the entry before begin().
C1_TransactionAtomicity ==
    (pc = "returned" /\ AfterBegin /\ ReCacheFailed) => Entry(Key) = Unwrap(pre)

\* An update of a key with docs fails at generation, after the source was
\* acquired again, and has returned.
C1_Witness ==
    /\ pc = "returned"
    /\ AfterBegin
    /\ call.err = "GenerationError"
    /\ IsSome(Unwrap(pre).docs)

\* C2: in every reachable state a package-level artifact exists for a key
\* only if the source directory of that key exists.
C2_ArtifactOnlyWithSource == \A k \in StorageKeys : has_docs(k) => is_cached(k)

\* A key keeps its docs and its source after a failed update of it.
C2_Witness ==
    /\ pc = "returned"
    /\ txn = "RolledBack"
    /\ has_docs(Key)

\* C3: a fan-out without update over [A, B] in which A's task succeeds and
\* B's acquisition fails returns PartialSuccess with A's success message and
\* B's error message, and leaves member docs for A and none for B.
C3_PartialFailure ==
    (/\ pc = "returned"
     /\ call.op = "cache"
     /\ ~call.updated
     /\ Len(tasks) = 2
     /\ tasks[1].res = "ok"
     /\ tasks[2].res = "AcquisitionError")
    => LET A == tasks[1].member
           B == tasks[2].member
       IN /\ outcome = Some(members_partial(Key, <<A, B>>, <<SuccessMsg(A)>>,
                                             <<FailureMsg(B, "AcquisitionError")>>, FALSE))
          /\ has_member_docs(Key, extract_member_name(A))
          /\ ~has_member_docs(Key, extract_member_name(B))

\* A's own acquisition succeeded, B's failed, and the request has returned.
C3_Witness ==
    /\ pc = "returned"
    /\ call.op = "cache"
    /\ ~call.updated
    /\ Len(tasks) = 2
    /\ tasks[1].res = "ok"
    /\ tasks[1].acq = "ok"
    /\ tasks[2].res = "AcquisitionError"

\* The fan-out of the current request has been aggregated.
Aggregated ==
    /\ call.op = "cache"
    /\ IsSome(call.members)
    /\ \/ pc \in {"commit", "u_failed"}
       \/ pc = "returned" /\ Unwrap(outcome).kind \in {"MembersSuccess", "PartialSuccess"}

TaskResults ==
    {"ok", "AcquisitionError", "PreconditionError", "MemberNotFound",
     "GenerationError", "NotFound", "DeserializationError"}

\* C4: the fan-out runs one task per requested member, in request order, and
\* the aggregated outcome exists only when every task has completed with a
\* result of its own; no task is cut short by another's failure.
C4_JoinAll ==
    /\ (call.op = "cache" /\ pc = "join") =>
          /\ Len(tasks) = Len(Unwrap(call.members))
          /\ \A i \in 1..Len(tasks) : tasks[i].member = Unwrap(call.members)[i]
    /\ Aggregated =>
          /\ Len(tasks) = Len(Unwrap(call.members))
          /\ \A i \in 1..Len(tasks) : tasks[i].pc = "done" /\ tasks[i].res \in TaskResults

\* The fan-out was aggregated after one task failed at its acquisition and
\* its sibling went on to succeed.
C4_Witness ==
    /\ Aggregated
    /\ Len(tasks) = 2
    /\ tasks[1].res = "AcquisitionError"
    /\ tasks[2].res = "ok"

\* The source tree every task of the fan-out generates from: what the
\* acquisitions of the fan-out deliver, or what was cached when it started.
FanOutTree ==
    IF IsSome(call.up) THEN Unwrap(call.up).tree ELSE Unwrap(src[Key]).tree

\* The result of a task as a function of the state at the start of the
\* fan-out and of the answers to the task's own calls.
OwnResult(t) ==
    IF t.hit THEN (IF t.load = "ok" THEN "ok" ELSE "DeserializationError")
    ELSE IF t.acquires /\ t.acq # "ok" THEN "AcquisitionError"
    ELSE IF t.member \notin FanOutTree.manifests THEN "MemberNotFound"
    ELSE IF t.gen # "ok" THEN "GenerationError"
    ELSE IF t.load # "ok" THEN "DeserializationError"
    ELSE "ok"

Classified(o) ==
    CASE o.kind \in {"Success", "SuccessUpdated"} -> IsSome(o.key)
      [] o.kind = "WorkspaceDetected" ->
           IsSome(o.key) /\ o.source_type \in {"cratesio", "github", "local"}
      [] o.kind = "MembersSuccess" ->
           IsSome(o.key) /\ o.errors = <<>> /\ Len(o.results) = Len(o.members)
      [] o.kind = "PartialSuccess" ->
           /\ IsSome(o.key)
           /\ o.errors # <<>>
           /\ Len(o.results) + Len(o.errors) = Len(o.members)
      [] o.kind = "Error" -> o.msg # <<>>
      [] OTHER -> FALSE

\* The steps of a request that has started and not yet returned.
Continue ==
    \/ Download \/ DetectAndHandleWorkspace \/ HandleCrateUpdate \/ UpdateDownload
    \/ UpdateDetect \/ UpdateSucceeded \/ UpdateFailed \/ FanOutStart
    \/ \E i \in 1..Len(tasks) : TaskAcquire(i) \/ TaskGenerate(i) \/ TaskLoad(i)
    \/ Join \/ EnsureAcquire \/ EnsureGenerate \/ EnsureLoad

\* C6: cache_crate_with_source never raises: whatever fails, a request that
\* has started can always go on until it returns, it has no outcome before it
\* returns, and what it returns is one fully classified CacheOutcome.
C6_NeverRaises ==
    call.op = "cache" =>
        /\ pc \notin {"idle", "returned"} => (outcome = None /\ ENABLED Continue)
        /\ pc = "returned" => (IsSome(outcome) /\ Classified(Unwrap(outcome)))

\* A plain request returned Error because generation failed.
C6_Witness ==
    /\ call.op = "cache"
    /\ pc = "returned"
    /\ outcome = Some(error(<<"Failed to cache crate", "GenerationError">>))

ValidationError == error(<<"Either branch or tag must be specified">>)

\* The step returns the validation error and has done nothing else.
RejectedBeforeIO ==
    /\ pc' = "returned"
    /\ outcome' = Some(ValidationError)
    /\ log' = <<>>
    /\ UNCHANGED <<src, docs, mdocs, backup, txn, tasks, pre, nTerm>>

\* C7: cache_crate_with_source on a GitHub descriptor with neither branch nor
\* tag returns the validation Error in its first step, whatever the update
\* flag and the members: no storage check, acquisition, transaction or
\* generation is made and the storage is unchanged.
C7_ValidationBeforeIO ==
    [][\A s \in Sources :
          (s.kind = "github" /\ s.branch = None /\ s.tag = None /\ CacheCrateWithSource(s))
          => RejectedBeforeIO]_vars

\* A descriptor with members and no ref was rejected.
C7_Witness ==
    /\ pc = "returned"
    /\ outcome = Some(ValidationError)
    /\ call.members = Some(<<"crates/a", "crates/b">>)

\* C8: a GitHub descriptor with both a branch and a tag is rejected like one
\* with neither: the validation Error, before any I/O.
C8_BothRefsRejected ==
    [][\A s \in Sources :
          (s.kind = "github" /\ IsSome(s.branch) /\ IsSome(s.tag) /\ CacheCrateWithSource(s))
          => (outcome' = Some(ValidationError) /\ UNCHANGED <<src, docs, mdocs, txn, tasks>>)]_vars

\* C9: the transaction of an update makes at most one terminal transition,
\* and has made exactly one, to Committed or to RolledBack, when a request
\* whose begin() succeeded returns, on each of its exit paths.
C9_OneTerminalTransition ==
    /\ nTerm <= 1
    /\ (txn \in {"Committed", "RolledBack"}) <=> (nTerm = 1)
    /\ (pc = "returned" /\ AfterBegin) => nTerm = 1

\* The re-cache succeeded, the commit failed, and the request has returned.
C9_Witness ==
    /\ pc = "returned"
    /\ AfterBegin
    /\ txn = "Committed"
    /\ Unwrap(outcome).kind = "Error"

\* C10: from a successful begin() until the commit or the drop, in every
\* intermediate state of the re-cache and of its member tasks, the
\* transaction is pending and its backup is the entry the key had before
\* begin().
C10_BackupRecoverable ==
    (AfterBegin /\ pc \notin {"idle", "returned"}) =>
        /\ txn = "Pending"
        /\ IsSome(backup)
        /\ backup = pre

\* Inside an update, one member task has generated its docs while another is
\* still acquiring.
C10_Witness ==
    /\ AfterBegin
    /\ pc = "join"
    /\ \E i, j \in 1..Len(tasks) : tasks[i].pc = "loading" /\ tasks[j].pc = "acquiring"

BeginError == error(<<"Failed to start update transaction", "BackupError">>)

\* C11: when begin() fails, handle_crate_update returns the Error outcome at
\* once: the entry of the key is untouched, nothing is backed up, the
\* transaction stays Pending (no terminal transition), and the only calls of
\* the request are the is_cached check and begin() -- the re-cache, with its
\* acquisition and generation, is never invoked.
C11_BeginFailure ==
    [][(pc = "update" /\ pc' = "returned") =>
          /\ outcome' = Some(BeginError)
          /\ UNCHANGED <<src, docs, mdocs, backup, nTerm, tasks>>
          /\ txn' = "Pending"
          /\ log' = <<Ev("is_cached", ""), Ev("begin", "")>>]_vars

\* The update of a key with docs returned because begin() failed.
C11_Witness ==
    /\ pc = "returned"
    /\ outcome = Some(BeginError)
    /\ has_docs(Key)
    /\ txn = "Pending"

\* C12: when the re-cache succeeded and commit() fails to delete the backup,
\* the new entry stays as written and the call returns the response of the
\* update, not a failure.
C12_CleanupNonFatal ==
    [][(pc = "commit" /\ pc' = "returned" /\ IsSome(backup')) =>
          /\ UNCHANGED <<src, docs, mdocs>>
          /\ outcome' = call.resp]_vars

\* The first n events of the log are evs.
LogStarts(evs) == Len(log) >= Len(evs) /\ SubSeq(log, 1, Len(evs)) = evs

\* The log of a plain request up to the workspace inspection: the is_cached
\* check is there iff update was requested.
PlainPrefix ==
    {pre_ \o <<Ev("acquire", ""), Ev("is_workspace", who)>> :
       pre_ \in {<<>>, <<Ev("is_cached", "")>>}, who \in {"", "ParseError"}}

\* C13: after the validation cache_crate_with_source goes to the update
\* transaction exactly when update is requested and the key is cached, else to
\* the fan-out when members are requested, else to the acquisition.  A
\* transaction exists only on the first route, where the fan-out runs inside
\* it; the second route aggregates the members without a transaction; the
\* third acquires, inspects, and reports WorkspaceDetected, or runs
\* ensure_crate_docs and reports Success, or reports the Error.
C13_Dispatch ==
    /\ [][\A s \in Sources :
            (CacheCrateWithSource(s) /\ pc' # "returned") =>
               LET p == extract_source_params(s)
                   cached == is_cached(<<p.crate_name, p.version>>)
               IN pc' = IF p.update /\ cached THEN "update"
                        ELSE IF IsSome(p.members) THEN "members"
                        ELSE "download"]_vars
    /\ [](call.op = "cache" =>
            /\ txn # "none" => LogStarts(<<Ev("is_cached", ""), Ev("begin", "")>>)
            /\ call.updated => txn # "none"
            /\ pc \in {"members", "join"} =>
                  IsSome(call.members) /\ (call.updated <=> txn = "Pending")
            /\ pc \in {"download", "detect"} => call.members = None /\ txn = "none"
            /\ (pc = "returned" /\ IsSome(call.key) /\ txn = "none") =>
                  LET o == Unwrap(outcome) IN
                  IF IsSome(call.members)
                    THEN o.kind \in {"MembersSuccess", "PartialSuccess"} /\ ~o.updated
                    ELSE /\ o.kind \in {"WorkspaceDetected", "Success", "Error"}
                         /\ o.kind = "WorkspaceDetected" =>
                              \E pre_ \in PlainPrefix :
                                 log = pre_ \o <<Ev("get_workspace_members", "")>>
                         /\ o.kind = "Success" =>
                              /\ \E pre_ \in PlainPrefix :
                                    LogStarts(pre_ \o <<Ev("has_docs", "")>>)
                              /\ has_docs(Key))

\* A request with update and members on a cached key runs its fan-out inside
\* the transaction.
C13_Witness ==
    /\ call.op = "cache"
    /\ pc = "join"
    /\ call.updated
    /\ txn = "Pending"
    /\ Len(tasks) = 2

\* The events of the log.
Events == {log[i] : i \in 1..Len(log)}

\* No step of ensure_crate_docs or of a member task ran in this request.
NoGeneration ==
    /\ tasks = <<>>
    /\ Events \cap {Ev("has_docs", ""), Ev("generate", ""), Ev("load", "")} = {}

C15_RegistrySuccess ==
    ( /\ pc = "returned"
      /\ call.op = "cache"
      /\ call.kind = "cratesio"
      /\ ~call.updated
      /\ Ev("has_docs", "") \in Events ) =>
        \/ /\ outcome = Some(success(Key))
           /\ has_docs(Key)
           /\ is_cached(Key)
        \/ /\ outcome = Some(error(<<"Failed to cache crate", "GenerationError">>))
           /\ Ev("load", "") \notin Events
        \/ outcome = Some(error(<<"Failed to cache crate", "DeserializationError">>))

\* The first request on the empty cache, from the registry: it acquired,
\* generated, loaded and returned Success.
C15_Witness ==
    /\ calls = 1
    /\ pc = "returned"
    /\ call.op = "cache"
    /\ call.kind = "cratesio"
    /\ log = <<Ev("acquire", ""), Ev("is_workspace", ""), Ev("has_docs", ""),
               Ev("is_cached", ""), Ev("generate", ""), Ev("load", "")>>
    /\ outcome = Some(success(Key))
    /\ has_docs(Key)

\* The current request is an ensure_crate_docs for the key of the previous
\* request, which was an ensure_crate_docs that returned its artifact.
SecondEnsure ==
    /\ IsSome(last)
    /\ call.op = "ensure_crate_docs"
    /\ Key = Unwrap(last).key

\* C16: an ensure_crate_docs that directly follows a successful
\* ensure_crate_docs for the same key is a pure cache hit: it checks has_docs
\* and loads, invokes neither the acquisition nor the generation, changes
\* nothing in the storage, and when it succeeds it returns the artifact the
\* first call returned.
C16_Idempotence ==
    /\ [](SecondEnsure =>
            /\ pc \in {"e_load", "returned"}
            /\ log = <<Ev("has_docs", ""), Ev("load", "")>>
            /\ (pc = "returned" /\ Unwrap(outcome).kind = "Ok") =>
                  Unwrap(outcome).value = Unwrap(last).value)
    /\ [][(SecondEnsure \/ SecondEnsure') => UNCHANGED <<src, docs, mdocs>>]_vars

\* The second of two successive calls returned the artifact.
C16_Witness ==
    /\ SecondEnsure
    /\ pc = "returned"
    /\ Unwrap(outcome).kind = "Ok"
    /\ IsSome(Unwrap(outcome).value)

EnsureEvent(e) == e.op \in {"has_docs", "is_cached", "acquire", "generate", "load"}

\* The calls ensure_crate_docs has made in the current request: the log from
\* its has_docs check on, without the commit or drop that may follow it.
EnsureLog ==
    LET h == CHOOSE i \in 1..Len(log) : log[i] = Ev("has_docs", "")
    IN SelectSeq(SubSeq(log, h, Len(log)), EnsureEvent)

\* The error a failed request reports (the last part of its message).
Cause(o) == IF o.msg = <<>> THEN "" ELSE o.msg[Len(o.msg)]

\* The orders in which ensure_crate_docs can have made its calls.
EnsureOrders ==
    LET H == Ev("has_docs", "")
        C == Ev("is_cached", "")
        A == Ev("acquire", "")
        G == Ev("generate", "")
        L == Ev("load", "")
    IN {<<H, L>>, <<H, C, G>>, <<H, C, G, L>>, <<H, C, A>>, <<H, C, A, G>>, <<H, C, A, G, L>>}

\* C17: ensure_crate_docs, called by a request or inside one, only loads when
\* has_docs holds; otherwise it acquires iff the key is not cached, then
\* generates, then loads.  While the acquisition runs the key is not cached;
\* while the generation runs the key is cached; the load runs only when the
\* docs exist; and a request that failed at the acquisition or at the
\* generation made no later call.
C17_StepOrder ==
    /\ [][\A k \in Keys :
            EnsureCrateDocs(k) =>
               pc' = IF has_docs(k) THEN "e_load"
                     ELSE IF is_cached(k) THEN "e_generate"
                     ELSE "e_acquire"]_vars
    /\ [](Ev("has_docs", "") \in Events =>
            LET e == EnsureLog
                final == e[Len(e)].op
            IN /\ e \in EnsureOrders
               /\ pc = "e_acquire" => (final = "acquire" /\ ~is_cached(Key))
               /\ pc = "e_generate" => (final = "generate" /\ is_cached(Key) /\ ~has_docs(Key))
               /\ pc = "e_load" => (final = "load" /\ has_docs(Key))
               /\ pc = "returned" =>
                    /\ Cause(Unwrap(outcome)) = "AcquisitionError" => final = "acquire"
                    /\ Cause(Unwrap(outcome)) \in {"GenerationError", "PreconditionError"}
                          => final = "generate"
                    /\ final \in {"acquire", "generate", "load"})

\* ensure_crate_docs acquired the source of an uncached key and its
\* generation then failed: it returned without loading.
C17_Witness ==
    /\ call.op = "ensure_crate_docs"
    /\ pc = "returned"
    /\ log = <<Ev("has_docs", ""), Ev("is_cached", ""), Ev("acquire", ""), Ev("generate", "")>>
    /\ outcome = Some(Err("GenerationError"))

\* C18: ensure_crate_or_member_docs without a member never generates, loads
\* or returns package-level docs for a key whose source is a workspace,
\* whether or not the source was cached when the call started: it fails with
\* AmbiguousWorkspace listing the members (or with the ParseError of the
\* inspection).
C18_AmbiguousWorkspace ==
    ( /\ call.op = "ensure_crate_or_member_docs"
      /\ tasks = <<>>
      /\ is_cached(Key)
      /\ is_workspace(Key) ) =>
        /\ pc \notin {"e_generate", "e_load"}
        /\ pc = "returned" =>
              outcome \in {Some(AmbiguousWorkspace(get_workspace_members(Key))),
                           Some(Err("ParseError"))}

\* C19: a remove_crate(k) that succeeds on a cached key k leaves k without
\* source, docs and member docs, and leaves the entry of every other key as
\* it was.
C19_RemoveClears ==
    [][\A k \in Keys :
          (RemoveCrate(k) /\ is_cached(k) /\ Unwrap(outcome').kind = "Ok") =>
             /\ src'[k] = None
             /\ docs'[k] = None
             /\ mdocs'[k] = NoMemberDocs
             /\ \A j \in StorageKeys \ {k} :
                   src'[j] = src[j] /\ docs'[j] = docs[j] /\ mdocs'[j] = mdocs[j]]_vars

\* A key cached with docs by the first request was removed by the second,
\* while another key holds docs.
C19_Witness ==
    /\ calls = 2
    /\ pc = "returned"
    /\ call.op = "remove_crate"
    /\ Key = <<"alpha", "v1">>
    /\ outcome = Some(Ok(None))
    /\ ~is_cached(Key)
    /\ has_docs(<<"alpha", "v2">>)

\* C20: in every reachable state a member artifact exists for a key and a
\* member only if the key's source is cached, its root manifest is a
\* workspace, and the member's own manifest exists under it.
C20_MemberDocsOnlyInWorkspace ==
    \A k \in StorageKeys, m \in MemberPaths :
        has_member_docs(k, extract_member_name(m)) =>
            /\ is_cached(k)
            /\ is_workspace(k)
            /\ m \in Unwrap(src[k]).tree.manifests

RefName(s) == IF IsSome(s.branch) THEN Unwrap(s.branch) ELSE Unwrap(s.tag)

\* The current request caches, without update and without members, a key
\* that has docs and a non-workspace source, and has generated nothing.
ServedFromEntry ==
    /\ call.op = "cache"
    /\ IsSome(call.key)
    /\ call.members = None
    /\ txn = "none" /\ pc # "update"
    /\ has_docs(Key)
    /\ ~is_workspace(Key)
    /\ Ev("generate", "") \notin Events

Succeeded == {i \in 1..Len(tasks) : tasks[i].res = "ok"}
Failed == {i \in 1..Len(tasks) : tasks[i].res # "ok"}

\* An update with requested members, whose begin() succeeded, has returned.
MembersUpdateReturned ==
    /\ pc = "returned"
    /\ AfterBegin
    /\ IsSome(call.members)

CleanupError == error(<<"Update succeeded but failed to cleanup", "CleanupError">>)

\* C23 (amended): an update with requested members is rolled back exactly
\* when at least one member failed and none succeeded, and is committed
\* otherwise.  When it is committed and the backup was discarded, the outcome
\* is the updated aggregate: MembersSuccess if no member failed, else
\* PartialSuccess; when the backup could not be discarded the outcome is the
\* cleanup Error.  After the commit a failed member never has its pre-update
\* artifact back, and has a new artifact only if its generation succeeded and
\* its load failed.
C23_RollbackIffAllFailed ==
    MembersUpdateReturned =>
        /\ txn = "RolledBack" <=> (Failed # {} /\ Succeeded = {})
        /\ txn = "Committed" <=> ~(Failed # {} /\ Succeeded = {})
        /\ txn = "RolledBack" =>
              /\ Entry(Key) = Unwrap(pre)
              /\ Unwrap(outcome).kind = "Error"
        /\ txn = "Committed" =>
              /\ outcome = IF backup = None
                             THEN Some(cache_workspace_members(
                                         Key, Unwrap(call.members), tasks, TRUE))
                           ELSE Some(CleanupError)
              /\ backup = None =>
                    Unwrap(outcome).kind =
                        IF Failed = {} THEN "MembersSuccess" ELSE "PartialSuccess"
              /\ \A i \in Succeeded :
                    has_member_docs(Key, extract_member_name(tasks[i].member))
              /\ \A i \in Failed :
                    has_member_docs(Key, extract_member_name(tasks[i].member))
                       => (tasks[i].gen = "ok" /\ tasks[i].res = "DeserializationError")

\* The update of a key whose entry held docs of both members re-cached one
\* member and failed the other at its generation: it is committed as
\* PartialSuccess and the failed member has no artifact any more.
C23_Witness ==
    /\ MembersUpdateReturned
    /\ txn = "Committed"
    /\ backup = None
    /\ Unwrap(outcome).kind = "PartialSuccess"
    /\ Len(tasks) = 2
    /\ tasks[1].res = "ok"
    /\ tasks[2].res = "GenerationError"
    /\ IsSome(Unwrap(pre).mdocs["b"])
    /\ tasks[2].member = "crates/b"
    /\ ~has_member_docs(Key, "b")

\* C23 as stated: when at least one member succeeded and another failed, the
\* update is committed and, the backup being discarded, the outcome is
\* PartialSuccess and every failed member is left without an artifact, new
\* or old.
C23_FailedMemberKeepsNothing ==
    (MembersUpdateReturned /\ Succeeded # {} /\ Failed # {}) =>
        /\ txn = "Committed"
        /\ backup = None =>
              /\ Unwrap(outcome).kind = "PartialSuccess"
              /\ \A i \in Failed :
                    ~has_member_docs(Key, extract_member_name(tasks[i].member))

\* C24: when cache_crate_with_source returns a non-Error outcome from the
\* update path, the transaction is committed and the key is cached again,
\* whatever the descriptor, also with a member list that is present and empty.
C24_CachedAfterUpdate ==
    (pc = "returned" /\ AfterBegin /\ Unwrap(outcome).kind # "Error") =>
        /\ txn = "Committed"
        /\ is_cached(Key)

\* C25: in one member fan-out at most one task finds the key not cached and
\* issues an acquisition of it.
C25_OneAcquisition ==
    (call.op = "cache" /\ pc = "join") =>
        Cardinality({i \in 1..Len(tasks) : tasks[i].acquires}) <= 1

\* The aggregate of the current fan-out, once there is one: what the plain
\* path returned, or what the update holds as its response before the commit.
Aggregate ==
    IF txn # "none" THEN call.resp
    ELSE IF pc = "returned" THEN outcome
    ELSE None

\* The messages the members contribute to one list, walking the request in
\* its order: the successes, or the failures.
Contributions(succeeded) ==
    LET ms == Unwrap(call.members)
        F[i \in 0..Len(ms)] ==
            IF i = 0 THEN <<>>
            ELSE IF (tasks[i].res = "ok") # succeeded THEN F[i - 1]
            ELSE Append(F[i - 1],
                        IF succeeded THEN SuccessMsg(ms[i])
                        ELSE FailureMsg(ms[i], tasks[i].res))
    IN F[Len(ms)]

\* C26: the aggregate of a fan-out holds one entry per requested member, in
\* the success list if the member's task succeeded and in the error list
\* otherwise, both lists in the order of the request whatever the order in
\* which the tasks completed; it is MembersSuccess iff the error list is
\* empty and PartialSuccess otherwise, and on the path without update this is
\* what the request returns, also when every member failed.
C26_Aggregation ==
    (call.op = "cache" /\ IsSome(call.members) /\ IsSome(call.key) /\ IsSome(Aggregate)) =>
        LET o == Unwrap(Aggregate) IN
        /\ o.kind \in {"MembersSuccess", "PartialSuccess"}
        /\ o.members = Unwrap(call.members)
        /\ o.updated = (txn # "none")
        /\ Len(o.results) + Len(o.errors) = Len(Unwrap(call.members))
        /\ o.results = Contributions(TRUE)
        /\ o.errors = Contributions(FALSE)
        /\ o.kind = "MembersSuccess" <=> o.errors = <<>>

\* A request without update for <<crates/b, crates/a>> returned
\* PartialSuccess after both members failed, b at its acquisition and a at
\* its generation.
C26_Witness ==
    /\ call.op = "cache"
    /\ ~call.updated
    /\ pc = "returned"
    /\ call.members = Some(<<"crates/b", "crates/a">>)
    /\ Unwrap(outcome).kind = "PartialSuccess"
    /\ Unwrap(outcome).results = <<>>
    /\ Unwrap(outcome).errors = <<FailureMsg("crates/b", "AcquisitionError"),
                                  FailureMsg("crates/a", "GenerationError")>>

\* The workspace inspection of the current request failed.
InspectionFailed == Ev("is_workspace", "ParseError") \in Events

\* C27: when is_workspace fails with ParseError, a request without update
\* goes on as for a regular crate: it runs ensure_crate_docs on the acquired
\* source and returns Success, with docs for the key, unless the generation
\* or the load fails; inside an update the failure ends the re-cache, the
\* transaction is rolled back, the entry is the one before begin() and the
\* outcome is the Error of the update carrying the ParseError.
C27_ParseErrorTwoPaths ==
    (call.op = "cache" /\ InspectionFailed) =>
        IF ~call.updated
          THEN /\ txn = "none"
               /\ is_cached(Key)
               /\ Ev("has_docs", "") \in Events
               /\ pc \in {"e_generate", "e_load", "returned"}
               /\ pc = "returned" =>
                     /\ outcome \in
                          {Some(success(Key)),
                           Some(error(<<"Failed to cache crate", "GenerationError">>)),
                           Some(error(<<"Failed to cache crate", "DeserializationError">>))}
                     /\ outcome = Some(success(Key)) => has_docs(Key)
          ELSE /\ call.err = "ParseError"
               /\ pc \in {"u_failed", "returned"}
               /\ pc = "returned" =>
                     /\ txn = "RolledBack"
                     /\ Entry(Key) = Unwrap(pre)
                     /\ outcome = Some(error(<<"Update failed, restored from backup",
                                               "ParseError">>))

\* The update of a key with docs acquired a source whose manifest could not
\* be read: it was rolled back and the docs are there again.
C27_Witness ==
    /\ call.op = "cache"
    /\ call.updated
    /\ InspectionFailed
    /\ pc = "returned"
    /\ txn = "RolledBack"
    /\ has_docs(Key)

\* The descriptor s without its update flag.
WithoutUpdate(s) == [s EXCEPT !.update = None]

\* C28: the outcome of cache_crate_with_source is marked updated exactly when
\* the request ran inside an update transaction whose commit() succeeded.  An
\* update request on a key that is not cached takes the first step of the
\* same request without the flag, but for the is_cached check: no
\* transaction is created then or later, no backup is taken, and what it
\* returns is not marked updated.
C28_UpdatedIffCommitted ==
    /\ [][\A s \in Sources :
            LET p == extract_source_params(s)
                k == <<p.crate_name, p.version>>
                p0 == extract_source_params(WithoutUpdate(s))
            IN (CacheCrateWithSource(s) /\ p.update /\ ~is_cached(k) /\ pc' # "returned") =>
                  /\ pc' = route(p0, is_cached(k))
                  /\ pc' # "update"
                  /\ call'.updated = FALSE
                  /\ log' = <<Ev("is_cached", "")>>
                            \o (IF pc' = "download" THEN <<Ev("acquire", "")>> ELSE <<>>)
                  /\ UNCHANGED <<src, docs, mdocs, backup, txn, pre, tasks>>]_vars
    /\ [][(call.op = "cache" /\ pc \notin {"idle", "update"} /\ txn = "none")
            => (txn' = "none" /\ backup' = None /\ pre' = None)]_vars
    /\ [](( /\ call.op = "cache" /\ pc = "returned") =>
            LET o == Unwrap(outcome) IN
            /\ o.updated <=> (txn = "Committed" /\ backup = None)
            /\ o.kind = "SuccessUpdated" => o.updated
            /\ o.kind = "Success" => ~o.updated
            /\ txn = "none" => (backup = None /\ pre = None))

\* An update request for a key that was not cached returned Success, not
\* marked updated, without a transaction.
C28_Witness ==
    /\ call.op = "cache"
    /\ pc = "returned"
    /\ LogStarts(<<Ev("is_cached", ""), Ev("acquire", "")>>)
    /\ txn = "none"
    /\ backup = None
    /\ outcome = Some(success(Key))

\* The calls of a successful update of a regular crate, in order.
UpdateLog ==
    <<Ev("is_cached", ""), Ev("begin", ""), Ev("acquire", ""), Ev("is_workspace", ""),
      Ev("has_docs", ""), Ev("is_cached", ""), Ev("generate", ""), Ev("load", ""),
      Ev("commit", "")>>

\* C29: an update without members that returns SuccessUpdated has made, after
\* begin() and before commit(), exactly one acquisition and then exactly one
\* generation; the key is a non-workspace, and the docs stored for it are
\* the ones generated from the newly acquired source, the backup with the
\* pre-update artifact being gone.
C29_UpdateRegenerates ==
    (call.op = "cache" /\ pc = "returned" /\ Unwrap(outcome).kind = "SuccessUpdated") =>
        /\ outcome = Some(success_updated(Key))
        /\ call.members = None
        /\ log = UpdateLog
        /\ Cardinality({i \in 1..Len(log) : log[i].op = "acquire"}) = 1
        /\ Cardinality({i \in 1..Len(log) : log[i].op = "generate"}) = 1
        /\ txn = "Committed"
        /\ backup = None
        /\ is_cached(Key)
        /\ ~is_workspace(Key)
        /\ docs[Key] = Some(Unwrap(src[Key]).rev)

\* The update of a key whose docs were generated from revision 1 acquired
\* revision 2 and returned SuccessUpdated: the stored docs are those of
\* revision 2.
C29_Witness ==
    /\ call.op = "cache"
    /\ pc = "returned"
    /\ Unwrap(outcome).kind = "SuccessUpdated"
    /\ IsSome(pre)
    /\ Unwrap(pre).docs = Some(1)
    /\ docs[Key] = Some(2)

\* C30: ensure_crate_source checks is_cached and acquires iff the key is not
\* cached; it never inspects, generates or loads, and no step of it changes
\* the docs or the member docs of any key, nor the source of another key.
\* It returns the source path of its key, which is then cached, or the
\* AcquisitionError, and then the key is still not cached.
C30_SourceOnly ==
    /\ [][\A k \in Keys :
            EnsureSource("ensure_crate_source", k, None) =>
               /\ log' = IF is_cached(k) THEN <<Ev("is_cached", "")>>
                         ELSE <<Ev("is_cached", ""), Ev("acquire", "")>>
               /\ UNCHANGED <<src, docs, mdocs>>]_vars
    /\ [][(call.op = "ensure_crate_source" /\ pc # "returned") =>
            /\ UNCHANGED <<docs, mdocs, log, backup, txn>>
            /\ \A k \in StorageKeys : k # Key => src'[k] = src[k]
            /\ is_cached(Key) => UNCHANGED src]_vars
    /\ [](call.op = "ensure_crate_source" =>
            /\ pc \in {"s_acquire", "s_classify", "returned"}
            /\ tasks = <<>>
            /\ pc = "s_acquire" => ~is_cached(Key)
            /\ pc = "returned" =>
                  \/ /\ outcome = Some(OkPath(source_path(Key)))
                     /\ is_cached(Key)
                  \/ /\ outcome = Some(Err("AcquisitionError"))
                     /\ log = <<Ev("is_cached", ""), Ev("acquire", "")>>
                     /\ ~is_cached(Key))

\* ensure_crate_source acquired the source of an uncached key and returned
\* its path; the key has no docs.
C30_Witness ==
    /\ call.op = "ensure_crate_source"
    /\ pc = "returned"
    /\ log = <<Ev("is_cached", ""), Ev("acquire", "")>>
    /\ outcome = Some(OkPath(<<"alpha", "v1">>))
    /\ is_cached(<<"alpha", "v1">>)
    /\ ~has_docs(<<"alpha", "v1">>)

\* What ensure_crate_or_member_source answers once the source of its key is
\* cached: the classification of lines 229-261, the inspection having
\* succeeded.
Classification ==
    IF IsSome(call.members)
      THEN LET m == Unwrap(call.members)[1] IN
           IF m \in Unwrap(src[Key]).tree.manifests
             THEN OkPath(member_source_path(Key, m))
             ELSE Err("MemberNotFound")
    ELSE IF is_workspace(Key) THEN AmbiguousWorkspace(get_workspace_members(Key))
    ELSE OkPath(source_path(Key))

\* C31: ensure_crate_or_member_source classifies only once the source of its
\* key is cached.  It returns the AcquisitionError with the key uncached, or,
\* with the key cached: member not found when the member's manifest is
\* absent, the member's path when it is there; without a member the error
\* listing the members on a workspace and the package's path otherwise (or
\* the ParseError of an inspection that fails).  No step of it generates or
\* loads documentation or changes any docs, and after a failure of the
\* classification the source is still cached.
C31_SourceThenClassify ==
    /\ [][(call.op = "ensure_crate_or_member_source" /\ pc # "returned") =>
            /\ UNCHANGED <<docs, mdocs, backup, txn>>
            /\ is_cached(Key) => UNCHANGED src]_vars
    /\ [](call.op = "ensure_crate_or_member_source" =>
            /\ pc \in {"s_acquire", "s_classify", "returned"}
            /\ tasks = <<>>
            /\ Events \cap {Ev("has_docs", ""), Ev("generate", ""), Ev("load", "")} = {}
            /\ pc = "s_acquire" => ~is_cached(Key)
            /\ pc = "s_classify" => is_cached(Key)
            /\ pc = "returned" =>
                  IF outcome = Some(Err("AcquisitionError"))
                    THEN ~is_cached(Key)
                    ELSE /\ is_cached(Key)
                         /\ outcome \in {Some(Classification)}
                               \cup (IF IsSome(call.members) THEN {}
                                     ELSE {Some(Err("ParseError"))}))

\* The source of an uncached key was acquired and is a workspace; the call,
\* without a member, failed listing the members, the source stays cached and
\* the key has no docs.
C31_Witness ==
    /\ call.op = "ensure_crate_or_member_source"
    /\ pc = "returned"
    /\ Ev("acquire", "") \in Events
    /\ outcome = Some(AmbiguousWorkspace(<<"crates/a", "crates/b">>))
    /\ is_cached(Key)
    /\ ~has_docs(Key)

\* The indices of the workspace-member packages, and of those with name n.
MemberPackages ==
    {i \in 1..Len(analyzer.workspace) : analyzer.workspace[i].is_member}
MemberPackagesNamed(n) == {i \in MemberPackages : analyzer.workspace[i].name = n}

\* C32: what select_package answered: with no member package the error "no
\* packages found"; with a package name given, a member package of that name,
\* or an error when no member has it, however many packages there are; with
\* no name and exactly one member package, that package; with no name and
\* several, the error asking for a selection.  It never answers a package
\* that is not a member.
C32_SelectPackage ==
    IsSome(analyzer.package) =>
      LET r == Unwrap(analyzer.package)
          name == analyzer.options.package
      IN  /\ r.ok => r.idx \in MemberPackages
          /\ IF MemberPackages = {}
               THEN ~r.ok /\ r.msg = "no packages found"
             ELSE IF IsSome(name)
               THEN IF MemberPackagesNamed(Unwrap(name)) = {}
                      THEN ~r.ok /\ r.msg = "No package found with name"
                      ELSE r.ok /\ r.idx \in MemberPackagesNamed(Unwrap(name))
             ELSE IF Cardinality(MemberPackages) = 1
               THEN r.ok /\ MemberPackages = {r.idx}
             ELSE ~r.ok /\ r.msg = "Multiple packages present in workspace"

\* The workspace has a single package, p, a member; package q was asked for,
\* and the selection failed.
C32_Witness ==
    /\ IsSome(analyzer.package)
    /\ Len(analyzer.workspace) = 1
    /\ analyzer.workspace[1] = [name |-> "p", is_member |-> TRUE]
    /\ analyzer.options.package = Some("q")
    /\ ~Unwrap(analyzer.package).ok

\* The indices of the Bin and Lib targets of the selected package, of its Lib
\* targets, and of its Bin targets of name n.
BinAndLibTargets ==
    {i \in 1..Len(analyzer.targets) : analyzer.targets[i].kind \in {"Bin", "Lib"}}
LibTargets == {i \in BinAndLibTargets : analyzer.targets[i].kind = "Lib"}
BinTargetsNamed(n) ==
    {i \in BinAndLibTargets : analyzer.targets[i] = [kind |-> "Bin", name |-> n]}

\* C33: what select_target answered: with no Bin or Lib target the error "no
\* targets found"; with the lib flag a Lib target, or an error when there is
\* none, whatever the bin name; else with a bin name a Bin target of that
\* name, or an error; else the only Bin or Lib target; else the error asking
\* for a flag.  The target it answers is a Bin or a Lib.
C33_SelectTarget ==
    IsSome(analyzer.target) =>
      LET r == Unwrap(analyzer.target)
          o == analyzer.options
      IN  /\ r.ok => analyzer.targets[r.idx].kind \in {"Bin", "Lib"}
          /\ IF BinAndLibTargets = {}
               THEN ~r.ok /\ r.msg = "no targets found"
             ELSE IF o.lib
               THEN IF LibTargets = {}
                      THEN ~r.ok /\ r.msg = "No library target found"
                      ELSE r.ok /\ r.idx \in LibTargets
             ELSE IF IsSome(o.bin)
               THEN IF BinTargetsNamed(Unwrap(o.bin)) = {}
                      THEN ~r.ok /\ r.msg = "No binary target found with name"
                      ELSE r.ok /\ r.idx \in BinTargetsNamed(Unwrap(o.bin))
             ELSE IF Cardinality(BinAndLibTargets) = 1
               THEN r.ok /\ BinAndLibTargets = {r.idx}
             ELSE ~r.ok /\ r.msg = "Multiple targets present in package"

\* The lib flag and the bin name x were both given, the package has the
\* binary x before a library, and the library was selected.
C33_Witness ==
    /\ IsSome(analyzer.target)
    /\ analyzer.options.lib
    /\ analyzer.options.bin = Some("x")
    /\ analyzer.targets = <<[kind |-> "Bin", name |-> "x"], [kind |-> "Lib", name |-> "y"]>>
    /\ Unwrap(analyzer.target) = Found(2)

\* C34: the configuration load_workspace makes has load_out_dirs_from_check
\* false, and no analysis runs build scripts, however far it gets.
C34_NoBuildScripts ==
    /\ IsSome(analyzer.config) => ~Unwrap(analyzer.config).load_out_dirs_from_check
    /\ \A i \in 1..Len(analyzer.events) : analyzer.events[i] # "run_build_scripts"

\* load_workspace went through to the end and returned the crate.
C34_Witness ==
    /\ analyzer.fn = "load_workspace"
    /\ analyzer.pc = "returned"
    /\ analyzer.result = "Ok"
    /\ analyzer.events = <<"load_project_workspace", "select_package", "select_target",
                           "load_workspace", "find_crate">>

\* a is a prefix of b, possibly the whole of it.
IsPrefix(a, b) == Len(a) <= Len(b) /\ SubSeq(b, 1, Len(a)) = a

\* The parts joined again with "::".
RECURSIVE join(_)
join(parts) ==
    IF Len(parts) = 1 THEN parts[1]
    ELSE parts[1] \o <<":", ":">> \o join(Tail(parts))

\* C35: use_tree_matches_item_path answers true exactly when the use tree
\* has a path and the names of its named segments are a prefix of the parts
\* of the item path, the parts being what "::" separates; so it answers false
\* when there are more named segments than parts and when a segment differs
\* from the part at its place.
C35_PrefixMatch ==
    IsSome(analyzer.matches) =>
      LET parts == split(analyzer.path)
          segments == IF IsSome(analyzer.use_tree)
                        THEN segments_of(Unwrap(analyzer.use_tree)) ELSE <<>>
      IN  /\ join(parts) = analyzer.path
          /\ Unwrap(analyzer.matches) =
               (IsSome(analyzer.use_tree) /\ IsPrefix(segments, parts))
          /\ Len(segments) > Len(parts) => ~Unwrap(analyzer.matches)
          /\ (\E i \in 1..Len(segments) : i <= Len(parts) /\ segments[i] # parts[i])
               => ~Unwrap(analyzer.matches)

\* The use tree a matched the item path a::b.
C35_Witness ==
    /\ analyzer.matches = Some(TRUE)
    /\ analyzer.use_tree = Some(<<Some(<<"a">>)>>)
    /\ analyzer.path = <<"a", ":", ":", "b">>

====
